---- MODULE Spec2Model ----
(***************************************************************************)
(* Model of the gajana reconciliation pipeline:                            *)
(*   - TransactionMatcher.find_new_txns  (src/src/transaction_matcher.py)  *)
(*   - Categorizer.categorize            (src/src/categorizer.py)          *)
(*   - TransactionProcessor              (src/src/transaction_processor.py)*)
(*                                                                         *)
(* Strings that the code lowercases, compares or searches are sequences    *)
(* of one-character strings, so that case folding, ordering and substring  *)
(* search are computed and not assumed.  Amounts are integers in           *)
(* thousandths of a currency unit; dates are <<day, time-of-day>>.         *)
(***************************************************************************)
EXTENDS Integers, Sequences, FiniteSets, TLC

VARIABLES
    \* ---- TransactionMatcher.find_new_txns ----
    old_txns,            \* argument old_txns
    all_potential_txns,  \* argument all_potential_txns (a mutable list)
    old_txn_ids,         \* local set of identity keys of old_txns
    new_txns,            \* local list of accepted candidates
    result,              \* the returned list
    mpc,                 \* position in find_new_txns
    run,                 \* 1: first call, 2: call after the merge into the ledger
    in_old,              \* old_txns as passed at call entry
    in_cands,            \* all_potential_txns as passed at call entry
    merged,              \* number of records the merge added to the ledger
    fatal_logs,          \* number of logger.fatal calls of the current call
    \* ---- Categorizer.categorize ----
    matchers,            \* self.matchers
    txns,                \* argument txns (records mutated in place)
    in_txns,             \* txns as passed at call entry
    ti,                  \* index of the transaction being processed
    matched_by,          \* per transaction: index of the rule that set its category, 0 if none
    cpc,                 \* position in categorize
    \* ---- TransactionProcessor ----
    raw_data,            \* the rows read from a statement sheet or the ledger sheet
    config,              \* the parsing profile
    account_name,        \* argument account_name, <<>> for None
    source,              \* "statement" or "ledger"
    best_header_row_index, \* local of _parse_statement_data_with_pandas
    df,                  \* the table handed to _standardize_parsed_df
    std_txns,            \* the records of the standardized table
    ppc,                 \* position in the processor
    amount_arg,          \* argument value: a string, NA for None
    amount_case,         \* how the argument was put together: glyph, magnitude, marker
    amount_ret,          \* the returned number, in thousandths
    apc,                 \* position in _parse_amount
    \* ---- utils.parse_mixed_datetime ----
    date_arg,            \* argument date_str: a string, NA for None
    formats_arg,         \* argument formats
    date_ret,            \* the returned datetime, NoDate for None
    dpc,                 \* position in parse_mixed_datetime
    \* ---- TransactionProcessor._format_txns_for_storage ----
    stored_txns,         \* argument txns: the transactions written to the ledger
    \* ---- TransactionProcessor.overwrite_transaction_log ----
    account_type,        \* argument account_type: the log type
    ds_calls,            \* the calls made on self.data_source, in order
    ds_returned,         \* how many of these calls have returned
    opc,                 \* position in overwrite_transaction_log
    \* ---- SQLiteBackupManager ----
    db_rows,             \* the rows of the table transactions, in rowid order
    backup_calls,        \* the arguments of the backup calls made so far
    restored_txns,       \* the list returned by the last restore
    bpc,                 \* position in the backup manager
    \* ---- retry_on_gcp_error ----
    retry_attempt,       \* the loop variable attempt of the wrapper
    attempt_log,         \* the outcomes of the attempts made so far
    sleep_log,           \* the arguments of the time.sleep calls so far
    retry_ret,           \* the value the wrapper returned
    rpc,                 \* position in the wrapper
    \* ---- TransactionProcessor.get_new_transactions_from_statements ----
    scan_type,             \* the argument account_type
    latest_txn_by_account, \* the argument: account -> latest ledger date
    statement_files,       \* what list_statement_file_details returned
    file_idx,              \* the file the loop is at
    sheet_name_calls,      \* files get_first_sheet_name_from_file was called for
    sheet_data_calls,      \* files get_sheet_data was called for
    all_parsed_txns,       \* the list built by the loop, and returned
    gpc                    \* position in the call

mvars == <<old_txns, all_potential_txns, old_txn_ids, new_txns, result, mpc,
           run, in_old, in_cands, merged, fatal_logs>>
cvars == <<matchers, txns, in_txns, ti, matched_by, cpc>>
pvars == <<raw_data, config, account_name, source, best_header_row_index,
           df, std_txns, ppc>>
avars == <<amount_arg, amount_case, amount_ret, apc>>
dvars == <<date_arg, formats_arg, date_ret, dpc>>
svars == <<stored_txns>>
ovars == <<account_type, ds_calls, ds_returned, opc>>
bvars == <<db_rows, backup_calls, restored_txns, bpc>>
rvars == <<retry_attempt, attempt_log, sleep_log, retry_ret, rpc>>
gvars ==
    <<scan_type, latest_txn_by_account, statement_files, file_idx,
      sheet_name_calls, sheet_data_calls, all_parsed_txns, gpc>>
evars == <<avars, dvars, svars, ovars, bvars, rvars, gvars>>
vars == <<mvars, cvars, pvars, evars>>

\* ------------------------------------------------------------------------
\* Bounds of the model
\* ------------------------------------------------------------------------
MaxOld == 1
MaxCands == 3
MaxMissOld == 2
MaxRules == 2
MaxCatTxns == 2

DEFAULT_CATEGORY == "Uncategorized"

\* ------------------------------------------------------------------------
\* Strings as character sequences
\* ------------------------------------------------------------------------
\* str.lower() on one character
LowerChar(c) ==
    CASE c = "A" -> "a"
      [] c = "B" -> "b"
      [] c = "C" -> "c"
      [] c = "D" -> "d"
      [] c = "E" -> "e"
      [] c = "F" -> "f"
      [] c = "G" -> "g"
      [] c = "H" -> "h"
      [] c = "I" -> "i"
      [] c = "J" -> "j"
      [] c = "K" -> "k"
      [] c = "L" -> "l"
      [] c = "M" -> "m"
      [] c = "N" -> "n"
      [] c = "O" -> "o"
      [] c = "P" -> "p"
      [] c = "Q" -> "q"
      [] c = "R" -> "r"
      [] c = "S" -> "s"
      [] c = "T" -> "t"
      [] c = "U" -> "u"
      [] c = "V" -> "v"
      [] c = "W" -> "w"
      [] c = "X" -> "x"
      [] c = "Y" -> "y"
      [] c = "Z" -> "z"
      [] OTHER -> c

\* str.lower()
Lower(s) == [i \in 1..Len(s) |-> LowerChar(s[i])]

\* code point of a character (Python compares str by code point)
Ord(c) ==
    CASE c = " " -> 32
      [] c = "(" -> 40
      [] c = "A" -> 65
      [] c = "B" -> 66
      [] c = "C" -> 67
      [] c = "K" -> 75
      [] c = "^" -> 94
      [] c = "a" -> 97
      [] c = "b" -> 98
      [] c = "c" -> 99
      [] c = "k" -> 107
      [] OTHER -> 127

RECURSIVE StrLessFrom(_, _, _)
StrLessFrom(s, t, i) ==
    IF i > Len(s) THEN i <= Len(t)
    ELSE IF i > Len(t) THEN FALSE
    ELSE IF Ord(s[i]) < Ord(t[i]) THEN TRUE
    ELSE IF Ord(s[i]) > Ord(t[i]) THEN FALSE
    ELSE StrLessFrom(s, t, i + 1)

\* s < t for Python str
StrLess(s, t) == StrLessFrom(s, t, 1)

\* p in s for Python str
IsSubstr(p, s) ==
    \E k \in 0..(Len(s) - Len(p)) :
        \A j \in 1..Len(p) : s[k + j] = p[j]

Range(s) == {s[i] : i \in 1..Len(s)}

SeqsUpTo(S, n) == UNION {[1..k -> S] : k \in 0..n}

\* ------------------------------------------------------------------------
\* Transactions
\* ------------------------------------------------------------------------
Txn(day, time, acct, amt, desc, cat, rem) ==
    [date |-> <<day, time>>, account |-> acct, amount |-> amt,
     description |-> desc, category |-> cat, remarks |-> rem]

\* Candidate and ledger records of the matcher runs: a base record and
\* records that differ from it in one component of the identity key, or
\* only in components outside it.
MBase == Txn(1, 0, <<"B">>, -1000, <<"A", "b">>, DEFAULT_CATEGORY, "")
MSameKey == Txn(1, 1, <<"B">>, -1004, <<"A", "b">>, "Food", "r")
MLowerDesc == Txn(1, 0, <<"B">>, -1000, <<"a", "b">>, DEFAULT_CATEGORY, "")
MSpaceDesc == Txn(1, 0, <<"B">>, -1000, <<"A", "b", " ">>, DEFAULT_CATEGORY, "")
MOtherAcct == Txn(1, 0, <<"C">>, -1000, <<"A", "b">>, DEFAULT_CATEGORY, "")
MOtherDay == Txn(2, 0, <<"B">>, -1000, <<"A", "b">>, DEFAULT_CATEGORY, "")
MOtherAmt == Txn(1, 0, <<"B">>, -1010, <<"A", "b">>, DEFAULT_CATEGORY, "")

MatcherTxns ==
    {MBase, MSameKey, MLowerDesc, MSpaceDesc, MOtherAcct, MOtherDay, MOtherAmt}

\* records that lack one of the keys the matcher reads
MNoAmount ==
    [date |-> <<1, 0>>, account |-> <<"B">>, description |-> <<"A", "b">>,
     category |-> DEFAULT_CATEGORY, remarks |-> ""]
MNoDate ==
    [account |-> <<"B">>, amount |-> -1000, description |-> <<"A", "b">>,
     category |-> DEFAULT_CATEGORY, remarks |-> ""]

MissingKeyTxns == {MBase, MSameKey, MOtherDay, MNoAmount, MNoDate}

\* ------------------------------------------------------------------------
\* TransactionMatcher.find_new_txns
\* ------------------------------------------------------------------------
Abs(x) == IF x < 0 THEN -x ELSE x

\* txn["date"].strftime("%Y-%m-%d"): the calendar day, the time is dropped
DateStr(d) == d[1]

\* f"{amount:.2f}": sign and hundredths.  The sign of a negative amount is
\* kept even when it rounds to zero ("-0.00").  Amounts of the model never
\* sit on a rounding tie.
Fmt2(a) == [neg |-> a < 0, cents |-> (Abs(a) + 5) \div 10]

\* a key that keeps the time of day
TxnIdWithTime(t) == <<t.date, t.account, Fmt2(t.amount), t.description>>

\* the identity tuple built at lines 50-55 and 69-74
TxnId(t) == <<DateStr(t.date), t.account, Fmt2(t.amount), t.description>>

\* the set comprehension of lines 49-57
OldTxnIds(old) == {TxnId(old[i]) : i \in 1..Len(old)}

\* the four keys read at lines 50-55 and 69-74 are present in the dict
HasKeys(t) == {"date", "account", "amount", "description"} \subseteq DOMAIN t

\* a key set that leaves out only the old records without the keys
OldIdsOfWellFormed(old) ==
    {TxnId(old[i]) : i \in {j \in 1..Len(old) : HasKeys(old[j])}}

\* lines 48-62: the key set of the old transactions, or the empty set when
\* building it raises KeyError
OldIdsOrEmpty(old) ==
    IF \A i \in 1..Len(old) : HasKeys(old[i]) THEN OldTxnIds(old) ELSE {}

\* a test that forgets the candidates already accepted
IsNewIdNoDedup(id, old_ids, processed) == id \notin old_ids

\* a test that forgets the old transactions
IsNewIdNoOld(id, old_ids, processed) == id \notin processed

\* the test of lines 76-79
IsNewId(id, old_ids, processed) == id \notin old_ids /\ id \notin processed

\* datetime comparison
DateLess(d, e) == d[1] < e[1] \/ (d[1] = e[1] /\ d[2] < e[2])

\* itemgetter("date", "account", "amount", "description") tuple comparison
ItemLess(a, b) ==
    \/ DateLess(a.date, b.date)
    \/ /\ a.date = b.date
       /\ \/ StrLess(a.account, b.account)
          \/ /\ a.account = b.account
             /\ \/ a.amount < b.amount
                \/ /\ a.amount = b.amount
                   /\ StrLess(a.description, b.description)

RECURSIVE InsertSorted(_, _)
InsertSorted(s, x) ==
    IF s = <<>> THEN <<x>>
    ELSE IF ItemLess(x, s[Len(s)])
         THEN Append(InsertSorted(SubSeq(s, 1, Len(s) - 1), x), s[Len(s)])
         ELSE Append(s, x)

\* a sort that leaves the list as it is
SortTxnsNone(s) == s

RECURSIVE SortTxns(_)
\* list.sort(key=itemgetter(...)): stable, ascending
SortTxns(s) ==
    IF s = <<>> THEN <<>>
    ELSE InsertSorted(SortTxns(SubSeq(s, 1, Len(s) - 1)), s[Len(s)])

RECURSIVE MatchLoop(_, _, _, _, _)
\* the for loop of lines 67-93 from candidate i on; a candidate without a
\* key raises KeyError inside the try and is passed over (lines 85-88)
MatchLoop(cands, i, old_ids, processed, acc) ==
    IF i > Len(cands) THEN acc
    ELSE IF ~HasKeys(cands[i])
         THEN MatchLoop(cands, i + 1, old_ids, processed, acc)
    ELSE IF IsNewId(TxnId(cands[i]), old_ids, processed)
         THEN MatchLoop(cands, i + 1, old_ids,
                        processed \cup {TxnId(cands[i])}, Append(acc, cands[i]))
         ELSE MatchLoop(cands, i + 1, old_ids, processed, acc)

MatcherInit ==
    /\ old_txns \in SeqsUpTo(MatcherTxns, MaxOld)
    /\ all_potential_txns \in SeqsUpTo(MatcherTxns, MaxCands)
    /\ old_txn_ids = {}
    /\ new_txns = <<>>
    /\ result = <<>>
    /\ mpc = "call"
    /\ run = 1
    /\ in_old = old_txns
    /\ in_cands = all_potential_txns
    /\ merged = 0
    /\ fatal_logs = 0

\* lines 36-38: no candidates
ReturnNoPotential ==
    /\ mpc = "call"
    /\ all_potential_txns = <<>>
    /\ result' = <<>>
    /\ mpc' = "done"
    /\ UNCHANGED <<old_txns, all_potential_txns, old_txn_ids, new_txns,
                   run, in_old, in_cands, merged, fatal_logs>>

\* lines 39-46: no old transactions; the argument list is sorted in place
\* and returned.  itemgetter raises KeyError on a record without one of the
\* keys: the exception leaves find_new_txns and the list stays as it was.
ReturnAllPotential ==
    /\ mpc = "call"
    /\ all_potential_txns # <<>>
    /\ old_txns = <<>>
    /\ IF \A i \in 1..Len(all_potential_txns) : HasKeys(all_potential_txns[i])
       THEN /\ all_potential_txns' = SortTxns(all_potential_txns)
            /\ result' = all_potential_txns'
            /\ mpc' = "done"
       ELSE /\ mpc' = "raised"
            /\ UNCHANGED <<all_potential_txns, result>>
    /\ UNCHANGED <<old_txns, old_txn_ids, new_txns, run, in_old, in_cands, merged,
                   fatal_logs>>

\* lines 48-62: build the key set of the old transactions
BuildOldIds ==
    /\ mpc = "call"
    /\ all_potential_txns # <<>>
    /\ old_txns # <<>>
    /\ old_txn_ids' = OldIdsOrEmpty(old_txns)
    /\ fatal_logs' = IF \A i \in 1..Len(old_txns) : HasKeys(old_txns[i])
                     THEN fatal_logs ELSE fatal_logs + 1
    /\ mpc' = "loop"
    /\ UNCHANGED <<old_txns, all_potential_txns, new_txns, result,
                   run, in_old, in_cands, merged>>

\* lines 64-93: one pass over the candidates
MatchCandidates ==
    /\ mpc = "loop"
    /\ new_txns' = MatchLoop(all_potential_txns, 1, old_txn_ids, {}, <<>>)
    /\ fatal_logs' = fatal_logs + Cardinality({i \in 1..Len(all_potential_txns) :
                                                  ~HasKeys(all_potential_txns[i])})
    /\ mpc' = "sort"
    /\ UNCHANGED <<old_txns, all_potential_txns, old_txn_ids, result,
                   run, in_old, in_cands, merged>>

\* lines 95-99: sort and return
SortAndReturn ==
    /\ mpc = "sort"
    /\ new_txns' = SortTxns(new_txns)
    /\ result' = new_txns'
    /\ mpc' = "done"
    /\ UNCHANGED <<old_txns, all_potential_txns, old_txn_ids,
                   run, in_old, in_cands, merged, fatal_logs>>

\* The new transactions are appended to the ledger and the same candidates
\* are matched again against the longer ledger.
MergeAndRerun ==
    /\ mpc = "done"
    /\ run = 1
    /\ old_txns' = old_txns \o result
    /\ merged' = Len(result)
    /\ run' = 2
    /\ in_old' = old_txns'
    /\ in_cands' = all_potential_txns
    /\ old_txn_ids' = {}
    /\ new_txns' = <<>>
    /\ result' = <<>>
    /\ mpc' = "call"
    /\ fatal_logs' = 0
    /\ UNCHANGED all_potential_txns

MatcherIdle ==
    /\ old_txns = <<>>
    /\ all_potential_txns = <<>>
    /\ old_txn_ids = {}
    /\ new_txns = <<>>
    /\ result = <<>>
    /\ mpc = "idle"
    /\ run = 0
    /\ in_old = <<>>
    /\ in_cands = <<>>
    /\ merged = 0
    /\ fatal_logs = 0

\* ------------------------------------------------------------------------
\* Categorizer.categorize
\* ------------------------------------------------------------------------
\* A rule of the matchers file.  debit is "absent", "true" or "false";
\* description is a list of patterns or some other JSON value.
Rule(cat, isList, pats, deb, hasAcct, acct, rx) ==
    [category |-> cat,
     description |-> [is_list |-> isList, patterns |-> pats],
     debit |-> deb,
     account |-> [present |-> hasAcct, value |-> acct],
     use_regex |-> rx]

RFood == Rule("Food", TRUE, << <<"b">> >>, "true", FALSE, <<>>, FALSE)
RIncome == Rule("Income", TRUE, << <<"A">> >>, "false", FALSE, <<>>, FALSE)
RBank == Rule("Bank", TRUE, << <<"a">> >>, "absent", TRUE, <<"B", "K">>, FALSE)
RRegex == Rule("Rx", TRUE, << <<"^", "b">> >>, "absent", FALSE, <<>>, TRUE)
RLiteral == Rule("Lit", TRUE, << <<"^", "b">> >>, "absent", FALSE, <<>>, FALSE)
RNotList == Rule("Bad", FALSE, <<>>, "absent", FALSE, <<>>, FALSE)
RBadRegex == Rule("BadRx", TRUE, << <<"a">>, <<"(">> >>, "absent", FALSE, <<>>, TRUE)
RTwo == Rule("Two", TRUE, << <<"k">>, <<"a", "b">> >>, "absent", FALSE, <<>>, FALSE)

Rules == {RFood, RIncome, RBank, RRegex, RLiteral, RNotList, RBadRegex, RTwo}

CT1 == Txn(1, 0, <<"B", "k">>, -1000, <<"A", "b">>, "Old", "")
CT2 == Txn(1, 0, <<"B", "k">>, 0, <<"a", "b">>, DEFAULT_CATEGORY, "")
CT3 == Txn(1, 0, <<"C", "c">>, 1000, <<"a", "^", "b">>, "Old", "")
CT4 == Txn(2, 0, <<"C", "c">>, -1000, <<"b", "a">>, "Old", "r")
CT5 == Txn(2, 0, <<"B", "k">>, -1000, <<"c">>, "Old", "")

CatTxns == {CT1, CT2, CT3, CT4, CT5}

\* re.compile succeeds.  The patterns of the model are letters, an optional
\* leading "^" and "(", which opens a group that is never closed.
RegexValid(p) == \A j \in 1..Len(p) : p[j] # "("

\* re.search(p, s, re.IGNORECASE) is not None, for a valid pattern of
\* letters with an optional leading "^"
RegexSearch(p, s) ==
    IF p # <<>> /\ p[1] = "^"
    THEN /\ Len(p) - 1 <= Len(s)
         /\ \A j \in 1..(Len(p) - 1) : LowerChar(p[j + 1]) = LowerChar(s[j])
    ELSE \E k \in 0..(Len(s) - Len(p)) :
             \A j \in 1..Len(p) : LowerChar(p[j]) = LowerChar(s[k + j])

\* a debit test that counts a zero amount as a debit
IsDebitOrZero(t) == t.amount <= 0

\* line 87
IsDebit(t) == t.amount < 0

\* a reset that keeps the category the transaction came with
ResetCategoryKeep(t) == t

\* a reset that also clears the remarks
ResetCategoryAndRemarks(t) == [t EXCEPT !.category = DEFAULT_CATEGORY, !.remarks = ""]

\* line 83
ResetCategory(t) == [t EXCEPT !.category = DEFAULT_CATEGORY]

\* lines 99-112: the rule is skipped by its debit or account condition
RuleSkipped(m, is_debit, txn_account) ==
    \/ m.debit # "absent" /\ (m.debit = "true") # is_debit
    \/ m.account.present /\ ~IsSubstr(Lower(m.account.value), txn_account)

\* lines 123-124: re.search raises re.error
PatternRaises(use_regex, p) == use_regex /\ ~RegexValid(p)

\* lines 123-128: the if / elif that sets match_found
PatternMatches(use_regex, p, txn_description) ==
    \/ use_regex /\ RegexSearch(p, txn_description)
    \/ IsSubstr(Lower(p), txn_description)

RECURSIVE TryPatterns(_, _, _)
\* the for loop of lines 119-148 from pattern j on
TryPatterns(m, j, txn_description) ==
    IF j > Len(m.description.patterns) THEN "nomatch"
    ELSE IF PatternRaises(m.use_regex, m.description.patterns[j]) THEN "fatal"
    ELSE IF PatternMatches(m.use_regex, m.description.patterns[j], txn_description)
         THEN "match"
         ELSE TryPatterns(m, j + 1, txn_description)

\* a description check that passes over a description that is not a list
DescriptionOutcomeSkip(m, txn_description) ==
    IF m.description.is_list THEN TryPatterns(m, 1, txn_description) ELSE "nomatch"

\* lines 115-153
DescriptionOutcome(m, txn_description) ==
    IF m.description.is_list THEN TryPatterns(m, 1, txn_description) ELSE "fatal"

RECURSIVE ApplyMatchersLast(_, _, _)
\* a rule loop without the break of lines 155-156: the last matching rule wins
ApplyMatchersLast(ms, k, t) ==
    IF k > Len(ms) THEN [outcome |-> "none", rule |-> 0]
    ELSE LET rest == ApplyMatchersLast(ms, k + 1, t)
             d == DescriptionOutcome(ms[k], Lower(t.description))
         IN  IF rest.outcome # "none" THEN rest
             ELSE IF RuleSkipped(ms[k], IsDebit(t), Lower(t.account)) THEN rest
             ELSE IF d = "fatal" THEN [outcome |-> "fatal", rule |-> k]
             ELSE IF d = "match" THEN [outcome |-> "match", rule |-> k]
             ELSE rest

RECURSIVE ApplyMatchers(_, _, _)
\* the for loop of lines 96-156 from rule k on
ApplyMatchers(ms, k, t) ==
    IF k > Len(ms) THEN [outcome |-> "none", rule |-> 0]
    ELSE IF RuleSkipped(ms[k], IsDebit(t), Lower(t.account))
         THEN ApplyMatchers(ms, k + 1, t)
    ELSE LET d == DescriptionOutcome(ms[k], Lower(t.description))
         IN  IF d = "fatal" THEN [outcome |-> "fatal", rule |-> k]
             ELSE IF d = "match" THEN [outcome |-> "match", rule |-> k]
             ELSE ApplyMatchers(ms, k + 1, t)

CatInit ==
    /\ matchers \in SeqsUpTo(Rules, MaxRules)
    /\ txns \in SeqsUpTo(CatTxns, MaxCatTxns)
    /\ in_txns = txns
    /\ ti = 0
    /\ matched_by = [i \in 1..Len(txns) |-> 0]
    /\ cpc = "call"

\* lines 66-70: no matchers loaded, log_and_exit
NoMatchersExit ==
    /\ cpc = "call"
    /\ matchers = <<>>
    /\ cpc' = "fatal"
    /\ UNCHANGED <<matchers, txns, in_txns, ti, matched_by>>

\* lines 72-74
StartCategorize ==
    /\ cpc = "call"
    /\ matchers # <<>>
    /\ ti' = 1
    /\ cpc' = "loop"
    /\ UNCHANGED <<matchers, txns, in_txns, matched_by>>

\* lines 76-166: one transaction; log_and_exit ends the process
CategorizeTxn ==
    /\ cpc = "loop"
    /\ ti <= Len(txns)
    /\ LET t == ResetCategory(txns[ti])
           r == ApplyMatchers(matchers, 1, t)
       IN  \/ /\ r.outcome = "fatal"
              /\ txns' = [txns EXCEPT ![ti] = t]
              /\ cpc' = "fatal"
              /\ UNCHANGED <<ti, matched_by>>
           \/ /\ r.outcome = "match"
              /\ txns' = [txns EXCEPT ![ti] =
                             [t EXCEPT !.category = matchers[r.rule].category]]
              /\ matched_by' = [matched_by EXCEPT ![ti] = r.rule]
              /\ ti' = ti + 1
              /\ UNCHANGED cpc
           \/ /\ r.outcome = "none"
              /\ txns' = [txns EXCEPT ![ti] = t]
              /\ ti' = ti + 1
              /\ UNCHANGED <<cpc, matched_by>>
    /\ UNCHANGED <<matchers, in_txns>>

\* lines 169-179
CatReturn ==
    /\ cpc = "loop"
    /\ ti > Len(txns)
    /\ cpc' = "done"
    /\ UNCHANGED <<matchers, txns, in_txns, ti, matched_by>>


CatIdle ==
    /\ matchers = <<>>
    /\ txns = <<>>
    /\ in_txns = <<>>
    /\ ti = 0
    /\ matched_by = <<>>
    /\ cpc = "idle"

\* ------------------------------------------------------------------------
\* TransactionProcessor: statement parsing and standardization
\* ------------------------------------------------------------------------
\* pd.NA, the marker of an absent cell.  It is not a string of characters.
NA == <<"<NA>">>

\* str(x) of a cell
StrOf(c) == IF c = NA THEN <<"<", "N", "A", ">">> ELSE c

SetMin(S) == CHOOSE x \in S : \A y \in S : x <= y
SetMax(S) == CHOOSE x \in S : \A y \in S : x >= y

RECURSIVE LStrip(_, _)
LStrip(s, cs) == IF s # <<>> /\ s[1] \in cs THEN LStrip(Tail(s), cs) ELSE s

RECURSIVE RStrip(_, _)
RStrip(s, cs) ==
    IF s # <<>> /\ s[Len(s)] \in cs
    THEN RStrip(SubSeq(s, 1, Len(s) - 1), cs)
    ELSE s

\* str.strip(chars)
StripChars(s, cs) == RStrip(LStrip(s, cs), cs)

\* str.strip(): the cells of the model hold no whitespace but the space
Strip(s) == StripChars(s, {" "})

StartsWith(s, p) == Len(p) <= Len(s) /\ SubSeq(s, 1, Len(p)) = p
EndsWith(s, p) == Len(p) <= Len(s) /\ SubSeq(s, Len(s) - Len(p) + 1, Len(s)) = p

\* str.replace(c, "") for every c of cs
RemoveChars(s, cs) == SelectSeq(s, LAMBDA c : c \notin cs)

RECURSIVE KeepIdxFrom(_, _, _)
KeepIdxFrom(s, I, i) ==
    IF i > Len(s) THEN <<>>
    ELSE (IF i \in I THEN <<s[i]>> ELSE <<>>) \o KeepIdxFrom(s, I, i + 1)

\* the elements of s at the positions of I, in the order of s
KeepIdx(s, I) == KeepIdxFrom(s, I, 1)

Digits == <<"0", "1", "2", "3", "4", "5", "6", "7", "8", "9">>
IsDigit(c) == \E d \in 1..10 : Digits[d] = c
DigitVal(c) == (CHOOSE d \in 1..10 : Digits[d] = c) - 1
AllDigits(s) == \A i \in 1..Len(s) : IsDigit(s[i])

RECURSIVE NatVal(_)
\* int(s) of a string of digits
NatVal(s) ==
    IF s = <<>> THEN 0
    ELSE 10 * NatVal(SubSeq(s, 1, Len(s) - 1)) + DigitVal(s[Len(s)])

\* ---- _parse_amount (lines 33-54) ----
\* the text handed to float() at line 50.  Cells of the model hold no
\* exponent, so the pd.to_numeric branch of lines 46-47 is never taken.
AmountText(value) ==
    LET s0 == RemoveChars(Strip(value), {",", "₹", "$"})
        s1 == IF StartsWith(s0, <<"(">>) /\ EndsWith(s0, <<")">>)
              THEN <<"-">> \o SubSeq(s0, 2, Len(s0) - 1)
              ELSE s0
        s2 == IF EndsWith(s1, <<" ", "C", "r">>) \/ EndsWith(s1, <<" ", "C", "R">>)
              THEN Strip(SubSeq(s1, 1, Len(s1) - 3))
              ELSE IF EndsWith(s1, <<" ", "D", "r">>) \/ EndsWith(s1, <<" ", "D", "R">>)
              THEN <<"-">> \o Strip(SubSeq(s1, 1, Len(s1) - 3))
              ELSE s1
    IN  IF EndsWith(s2, <<"%">>) THEN SubSeq(s2, 1, Len(s2) - 1) ELSE s2

\* the digits of a float literal without its sign
Unsigned(s) ==
    IF s # <<>> /\ s[1] \in {"+", "-"} THEN Tail(s) ELSE s

DotPositions(s) == {i \in 1..Len(s) : s[i] = "."}

\* float(s) accepts s: surrounding whitespace, an optional sign, digits with
\* at most one decimal point and at least one digit
IsFloatText(t) ==
    LET u == Unsigned(Strip(t))
    IN  /\ u # <<>>
        /\ Cardinality(DotPositions(u)) <= 1
        /\ \A i \in 1..Len(u) : IsDigit(u[i]) \/ u[i] = "."
        /\ \E i \in 1..Len(u) : IsDigit(u[i])

\* the fraction digits as thousandths (cells of the model have at most
\* three fraction digits)
FracMills(f) ==
    IF Len(f) = 0 THEN 0
    ELSE IF Len(f) = 1 THEN 100 * NatVal(f)
    ELSE IF Len(f) = 2 THEN 10 * NatVal(f)
    ELSE NatVal(SubSeq(f, 1, 3))

\* float(s) in thousandths
FloatValue(t) ==
    LET s == Strip(t)
        u == Unsigned(s)
        dot == IF DotPositions(u) = {} THEN Len(u) + 1 ELSE SetMin(DotPositions(u))
        mag == 1000 * NatVal(SubSeq(u, 1, dot - 1))
                 + FracMills(SubSeq(u, dot + 1, Len(u)))
    IN  IF s[1] = "-" THEN -mag ELSE mag

\* _parse_amount: fatal stands for log_and_exit at line 53
ParseAmount(value) ==
    IF value = NA \/ value = <<>> THEN [fatal |-> FALSE, val |-> 0]
    ELSE IF IsFloatText(AmountText(value))
         THEN [fatal |-> FALSE, val |-> FloatValue(AmountText(value))]
    ELSE IF value \in {<<"0">>, <<"0", ".", "0">>}
         THEN [fatal |-> FALSE, val |-> 0]
    ELSE [fatal |-> TRUE, val |-> 0]

\* ---- parse_mixed_datetime (utils.py lines 37-86) ----
\* The result for a cell without a date (None)
NoDate == <<0, 0>>

IsLeap(y) == (y % 4 = 0 /\ y % 100 # 0) \/ y % 400 = 0

DaysInMonth(y, m) ==
    IF m = 2 THEN (IF IsLeap(y) THEN 29 ELSE 28)
    ELSE IF m \in {4, 6, 9, 11} THEN 30
    ELSE 31

\* the calendar day as a number that grows with the date
DayNumber(y, m, d) == (y * 12 + (m - 1)) * 31 + d

StrpFail == [ok |-> FALSE, end |-> 0, y |-> 0, m |-> 0, d |-> 0]

\* the text at position i is a two-character day, month: the alternatives
\* of the regular expressions of _strptime
TwoDigitDay(s, i) ==
    /\ i + 1 <= Len(s)
    /\ IsDigit(s[i]) /\ IsDigit(s[i + 1])
    /\ NatVal(SubSeq(s, i, i + 1)) \in 1..31
OneDigit(s, i) == i <= Len(s) /\ IsDigit(s[i]) /\ s[i] # "0"
SpaceDigitDay(s, i) ==
    i + 1 <= Len(s) /\ s[i] = " " /\ IsDigit(s[i + 1]) /\ s[i + 1] # "0"
TwoDigitMonth(s, i) ==
    /\ i + 1 <= Len(s)
    /\ IsDigit(s[i]) /\ IsDigit(s[i + 1])
    /\ NatVal(SubSeq(s, i, i + 1)) \in 1..12

\* the day or month read at position i of s as n characters, 0 when the
\* characters are no alternative of the directive's regular expression
DayWidth(s, i, n) ==
    IF n = 2 /\ TwoDigitDay(s, i) THEN NatVal(SubSeq(s, i, i + 1))
    ELSE IF n = 1 /\ OneDigit(s, i) THEN DigitVal(s[i])
    ELSE IF n = 3 /\ SpaceDigitDay(s, i) THEN DigitVal(s[i + 1])
    ELSE 0
MonthWidth(s, i, n) ==
    IF n = 2 /\ TwoDigitMonth(s, i) THEN NatVal(SubSeq(s, i, i + 1))
    ELSE IF n = 1 /\ OneDigit(s, i) THEN DigitVal(s[i])
    ELSE 0
YearWidth(s, i, n) ==
    IF n = 4 /\ i + 3 <= Len(s) /\ AllDigits(SubSeq(s, i, i + 3))
    THEN NatVal(SubSeq(s, i, i + 3))
    ELSE IF n = 2 /\ i + 1 <= Len(s) /\ AllDigits(SubSeq(s, i, i + 1))
    THEN (IF NatVal(SubSeq(s, i, i + 1)) < 69 THEN 2000 ELSE 1900)
             + NatVal(SubSeq(s, i, i + 1))
    ELSE 0

\* the alternatives of a directive in the order of its regular
\* expression: <<number of characters, alternative>>
Alternatives(tok) ==
    IF tok = "%d" THEN << <<2, 2>>, <<1, 1>>, <<2, 3>> >>
    ELSE IF tok = "%m" THEN << <<2, 2>>, <<1, 1>> >>
    ELSE IF tok = "%Y" THEN << <<4, 4>> >>
    ELSE << <<2, 2>> >>

DirectiveValue(tok, s, i, alt) ==
    IF tok = "%d" THEN DayWidth(s, i, alt)
    ELSE IF tok = "%m" THEN MonthWidth(s, i, alt)
    ELSE IF tok = "%Y" THEN YearWidth(s, i, 4)
    ELSE YearWidth(s, i, 2)

SetField(acc, tok, v) ==
    IF tok = "%d" THEN [acc EXCEPT !.d = v]
    ELSE IF tok = "%m" THEN [acc EXCEPT !.m = v]
    ELSE [acc EXCEPT !.y = v]

IsDirective(tok) == tok \in {"%d", "%m", "%Y", "%y"}

RECURSIVE StrpFrom(_, _, _, _, _, _)
\* re.match of the format's regular expression: directive j of fmt at
\* position i of s, from alternative a of the directive on.  A directive
\* value of 0 says that the alternative does not match (no day, month or
\* year of the model is 0).
StrpFrom(s, i, fmt, j, a, acc) ==
    IF j > Len(fmt) THEN [acc EXCEPT !.ok = TRUE, !.end = i - 1]
    ELSE IF ~IsDirective(fmt[j])
    THEN IF i <= Len(s) /\ LowerChar(s[i]) = LowerChar(fmt[j])
         THEN StrpFrom(s, i + 1, fmt, j + 1, 1, acc)
         ELSE StrpFail
    ELSE IF a > Len(Alternatives(fmt[j])) THEN StrpFail
    ELSE IF /\ DirectiveValue(fmt[j], s, i, Alternatives(fmt[j])[a][2]) # 0
            /\ StrpFrom(s, i + Alternatives(fmt[j])[a][1], fmt, j + 1, 1,
                        SetField(acc, fmt[j],
                                 DirectiveValue(fmt[j], s, i,
                                                Alternatives(fmt[j])[a][2]))).ok
    THEN StrpFrom(s, i + Alternatives(fmt[j])[a][1], fmt, j + 1, 1,
                  SetField(acc, fmt[j],
                           DirectiveValue(fmt[j], s, i, Alternatives(fmt[j])[a][2])))
    ELSE StrpFrom(s, i, fmt, j, a + 1, acc)

\* datetime.strptime(s, fmt): the whole string has to be consumed and the
\* day has to exist in the month; NoDate stands for ValueError
Strptime(s, fmt) ==
    LET r == StrpFrom(s, 1, fmt, 1, 1,
                      [ok |-> FALSE, end |-> 0, y |-> 1900, m |-> 1, d |-> 1])
    IN  IF r.ok /\ r.end = Len(s) /\ r.d <= DaysInMonth(r.y, r.m)
        THEN <<DayNumber(r.y, r.m, r.d), 0>>
        ELSE NoDate

FmtIso == <<"%Y", "-", "%m", "-", "%d">>
FmtDayFirst == <<"%d", "/", "%m", "/", "%Y">>
FmtMonthFirst == <<"%m", "/", "%d", "/", "%Y">>

\* pd.to_datetime(s, dayfirst=True, errors="coerce") on the date cells of
\* the model: an ISO date, a slash-separated date read day first (month
\* first when the day-first reading is no date), anything else is NaT
InferDate(s) ==
    IF Strptime(s, FmtIso) # NoDate THEN Strptime(s, FmtIso)
    ELSE IF Strptime(s, FmtDayFirst) # NoDate THEN Strptime(s, FmtDayFirst)
    ELSE Strptime(s, FmtMonthFirst)

\* a format list that takes the last format that parses
RECURSIVE TryFormatsLast(_, _, _)
TryFormatsLast(s, formats, k) ==
    IF k > Len(formats) THEN NoDate
    ELSE IF TryFormatsLast(s, formats, k + 1) # NoDate
    THEN TryFormatsLast(s, formats, k + 1)
    ELSE Strptime(s, formats[k])

RECURSIVE TryFormats(_, _, _)
\* the loop of lines 52-61: the first format that parses decides
TryFormats(s, formats, k) ==
    IF k > Len(formats) THEN NoDate
    ELSE IF Strptime(s, formats[k]) # NoDate THEN Strptime(s, formats[k])
    ELSE TryFormats(s, formats, k + 1)

\* parse_mixed_datetime(logger, date_str, formats)
ParseDate(date_str, formats) ==
    IF date_str = NA \/ date_str = <<>> THEN NoDate
    ELSE LET cleaned_str == StripChars(date_str, {"'", " "})
             parsed_date == TryFormats(cleaned_str, formats, 1)
         IN  IF parsed_date # NoDate THEN parsed_date
             ELSE InferDate(cleaned_str)

\* ---- column names ----
cDate == <<"D", "a", "t", "e">>
cDATE == <<"D", "A", "T", "E">>
cDescription == <<"D", "e", "s", "c", "r", "i", "p", "t", "i", "o", "n">>
cDebit == <<"D", "e", "b", "i", "t">>
cCredit == <<"C", "r", "e", "d", "i", "t">>
cAmount == <<"A", "m", "o", "u", "n", "t">>
cType == <<"T", "y", "p", "e">>
cCategory == <<"C", "a", "t", "e", "g", "o", "r", "y">>
cRemarks == <<"R", "e", "m", "a", "r", "k", "s">>
cAccount == <<"A", "c", "c", "o", "u", "n", "t">>

\* INTERNAL_TXN_KEYS and the other canonical column names
kDate == Lower(cDate)
kDescription == Lower(cDescription)
kDebit == Lower(cDebit)
kCredit == Lower(cCredit)
kAmount == Lower(cAmount)
kType == Lower(cType)
kCategory == Lower(cCategory)
kRemarks == Lower(cRemarks)
kAccount == Lower(cAccount)

\* DEFAULT_CATEGORY and "Unknown" as cell values
DefaultCategoryCell ==
    <<"U", "n", "c", "a", "t", "e", "g", "o", "r", "i", "z", "e", "d">>
UnknownAccount == <<"U", "n", "k", "n", "o", "w", "n">>

\* ---- parsing profiles ----
Profile(patterns, cmap, formats, sign_col, debit_val) ==
    [header_patterns |-> patterns, column_map |-> cmap,
     date_formats |-> formats, amount_sign_col |-> sign_col,
     debit_value |-> debit_val]

\* a bank profile with split debit and credit columns
PBank ==
    Profile(<< <<cDate, cDescription, cDebit, cCredit>> >>,
            << <<cDate, kDate>>, <<cDescription, kDescription>>,
               <<cDebit, kDebit>>, <<cCredit, kCredit>> >>,
            <<FmtDayFirst>>, <<>>, <<>>)

SignedMap ==
    << <<cDate, kDate>>, <<cDescription, kDescription>>,
       <<cAmount, kAmount>>, <<cType, kType>>,
       <<cDebit, kDebit>>, <<cCredit, kCredit>> >>

\* a card profile whose sign column names the debits
PSigned ==
    Profile(<< <<cDate, cDescription, cAmount, cType>> >>, SignedMap,
            <<FmtDayFirst>>, kType, cDebit)

\* a card profile whose sign column is empty on the debits
PSignedEmpty ==
    Profile(<< <<cDate, cDescription, cAmount, cType>> >>, SignedMap,
            <<FmtDayFirst>>, kType, <<>>)

\* a profile with a signed amount column and nothing else
PAmount ==
    Profile(<< <<cDate, cDescription, cAmount>> >>,
            << <<cDate, kDate>>, <<cDescription, kDescription>>,
               <<cAmount, kAmount>> >>,
            <<FmtIso>>, <<>>, <<>>)

Profiles == {PBank, PSigned, PSignedEmpty, PAmount}

\* log_config of get_old_transactions (lines 333-344)
LogConfig ==
    Profile(<<>>,
            << <<cDate, kDate>>, <<cDescription, kDescription>>,
               <<cCategory, kCategory>>, <<cRemarks, kRemarks>>,
               <<cAccount, kAccount>>, <<cDebit, kDebit>>,
               <<cCredit, kCredit>> >>,
            <<FmtIso>>, <<>>, <<>>)

\* ---- header detection (lines 117-154) ----
RECURSIVE JoinCells(_)
\* " ".join(map(str, row))
JoinCells(row) ==
    IF row = <<>> THEN <<>>
    ELSE IF Len(row) = 1 THEN StrOf(row[1])
    ELSE StrOf(row[1]) \o <<" ">> \o JoinCells(Tail(row))

\* lines 127-131: the number of keywords found in the row text
KeywordMatches(pattern, row_content_lower) ==
    Cardinality({k \in 1..Len(pattern) :
                    IsSubstr(Lower(pattern[k]), row_content_lower)})

RECURSIVE AnyPatternFrom(_, _, _)
\* lines 126-138: matches >= len(pattern) * 0.75 for some pattern
AnyPatternFrom(patterns, p, row_content_lower) ==
    IF p > Len(patterns) THEN FALSE
    ELSE IF 4 * KeywordMatches(patterns[p], row_content_lower)
               >= 3 * Len(patterns[p])
         THEN TRUE
    ELSE AnyPatternFrom(patterns, p + 1, row_content_lower)

\* a scan that looks at every row of the statement
max_check_rows_all(data) == Len(data)

\* line 123
max_check_rows(data) == IF Len(data) < 30 THEN Len(data) ELSE 30

RECURSIVE ScanRows(_, _, _, _)
\* the loop of lines 124-140 from row index i on; -1 stands for None
ScanRows(data, patterns, i, limit) ==
    IF i >= limit THEN -1
    ELSE IF AnyPatternFrom(patterns, 1, Lower(JoinCells(data[i + 1]))) THEN i
    ELSE ScanRows(data, patterns, i + 1, limit)

\* lines 117-154
HeaderRowIndex(data, patterns) ==
    LET i == ScanRows(data, patterns, 0, max_check_rows(data))
    IN  IF i = -1 THEN 0 ELSE i

\* ---- tables ----
\* A DataFrame: the column names and the rows, one cell per column
Frame(cols, rows) == [cols |-> cols, rows |-> rows]
NoFrame == Frame(<<>>, <<>>)

\* a short row is filled with missing cells
PadRow(row, n) == [i \in 1..n |-> IF i <= Len(row) THEN row[i] ELSE NA]

\* pd.DataFrame(data, columns=header) raises unless the longest row has
\* as many cells as the header
FrameRaises(header, data) ==
    data # <<>> /\ SetMax({Len(data[i]) : i \in 1..Len(data)}) # Len(header)

\* df.replace("", pd.NA)
ReplaceEmpty(rows) ==
    [i \in 1..Len(rows) |->
        [j \in 1..Len(rows[i]) |-> IF rows[i][j] = <<>> THEN NA ELSE rows[i][j]]]

\* df.dropna(how="all")
DropEmptyRows(rows) ==
    KeepIdx(rows, {i \in 1..Len(rows) : \E j \in 1..Len(rows[i]) : rows[i][j] # NA})

\* df.dropna(axis=1, how="all"): the columns with a value in some row
NonEmptyCols(f) ==
    {j \in 1..Len(f.cols) : \E i \in 1..Len(f.rows) : f.rows[i][j] # NA}

\* df.loc[:, ~df.columns.str.contains("^Unnamed")]
NamedCols(f) ==
    {j \in 1..Len(f.cols) :
        ~StartsWith(f.cols[j], <<"U", "n", "n", "a", "m", "e", "d">>)}

SelectCols(f, J) ==
    Frame(KeepIdx(f.cols, J),
          [i \in 1..Len(f.rows) |-> KeepIdx(f.rows[i], J)])

\* df.empty
FrameEmpty(f) == f.cols = <<>> \/ f.rows = <<>>

\* line 183 on the table g of the named columns
DropEmptyCols(g) == SelectCols(g, NonEmptyCols(g))

\* lines 181-183: the named columns that hold a value in some row
CleanCols(f) == DropEmptyCols(SelectCols(f, NamedCols(f)))

\* lines 173-183 for a profile without special handling
BuildAndClean(header, data) ==
    CleanCols(Frame(header,
                    DropEmptyRows(ReplaceEmpty(
                        [i \in 1..Len(data) |-> PadRow(data[i], Len(header))]))))

\* lines 156-194 with the header row at index h; f is the cleaned table
ParseFromHeader(data, h, f) ==
    IF FrameRaises(data[h + 1], SubSeq(data, h + 2, Len(data)))
    THEN [pc |-> "fatal", header |-> h, df |-> NoFrame]
    ELSE IF FrameEmpty(f)
    THEN [pc |-> "no_frame", header |-> h, df |-> NoFrame]
    ELSE [pc |-> "parsed", header |-> h, df |-> f]

\* lines 117-194 with the header row at index h
ParseWithHeader(data, h) ==
    ParseFromHeader(data, h,
                    BuildAndClean(data[h + 1], SubSeq(data, h + 2, Len(data))))

\* _parse_statement_data_with_pandas
ParseStatementData(data, cfg) ==
    IF data = <<>> THEN [pc |-> "no_frame", header |-> -1, df |-> NoFrame]
    ELSE ParseWithHeader(data, HeaderRowIndex(data, cfg.header_patterns))

\* ---- _standardize_parsed_df (lines 196-310) ----
\* lines 214-228: a column is renamed when its trimmed, lowercased name is
\* a key of column_map (the later key decides).  Column names of the model
\* carry no surrounding spaces and are distinct without regard to case.
RenamedName(col, column_map) ==
    LET hits == {k \in 1..Len(column_map) :
                    Lower(Strip(column_map[k][1])) = Lower(Strip(col))}
    IN  IF hits # {} /\ Strip(col) = col
        THEN column_map[SetMax(hits)][2]
        ELSE col

RenameColumns(cols, column_map) ==
    [j \in 1..Len(cols) |-> RenamedName(cols[j], column_map)]

ColIndex(cols, name) == CHOOSE j \in 1..Len(cols) : cols[j] = name

\* the rows that keep every row, parsed date or not
ParsedDateRowsAll(dates) == 1..Len(dates)

\* df.dropna(subset=["date"]): the rows with a parsed date
ParsedDateRows(dates) == {i \in 1..Len(dates) : dates[i] # NoDate}

\* lines 264-269: the row is a debit according to the sign column
IsDebitSign(sign_cell, debit_value) ==
    \/ debit_value = <<>> /\ sign_cell = NA
    \/ Lower(Strip(StrOf(sign_cell))) = debit_value

\* lines 251-276: the amount of one row, source "none" when the table
\* has no column to compute it from
RowAmount(row, cols, cfg) ==
    LET Has(name) == name \in Range(cols)
        Cell(name) == row[ColIndex(cols, name)]
        debit_value == Lower(cfg.debit_value)
    IN  IF Has(kDebit) /\ Has(kCredit)
        THEN [source |-> "debit_credit",
              fatal |-> ParseAmount(Cell(kCredit)).fatal
                            \/ ParseAmount(Cell(kDebit)).fatal,
              val |-> ParseAmount(Cell(kCredit)).val
                          - ParseAmount(Cell(kDebit)).val]
        ELSE IF /\ Has(kAmount)
                /\ cfg.amount_sign_col # <<>>
                /\ Has(cfg.amount_sign_col)
        THEN [source |-> "signed",
              fatal |-> ParseAmount(Cell(kAmount)).fatal,
              val |-> IF IsDebitSign(Cell(cfg.amount_sign_col), debit_value)
                      THEN -ParseAmount(Cell(kAmount)).val
                      ELSE ParseAmount(Cell(kAmount)).val]
        ELSE IF Has(kAmount)
        THEN [source |-> "amount",
              fatal |-> ParseAmount(Cell(kAmount)).fatal,
              val |-> ParseAmount(Cell(kAmount)).val]
        ELSE [source |-> "none", fatal |-> FALSE, val |-> 0]

\* lines 278-310: one record of the final table.  A default is supplied
\* for a column the table lacks; a missing cell of a column the table has
\* stays missing.  acct is <<>> when no name is passed.
FinalRecord(row, cols, date, amount, acct) ==
    LET Has(name) == name \in Range(cols)
        Cell(name) == row[ColIndex(cols, name)]
    IN  [date |-> date,
         description |-> IF Has(kDescription) THEN Cell(kDescription) ELSE <<>>,
         amount |-> amount,
         category |-> IF Has(kCategory) THEN Cell(kCategory)
                      ELSE DefaultCategoryCell,
         remarks |-> IF Has(kRemarks) THEN Cell(kRemarks) ELSE <<>>,
         account |-> IF acct # <<>> THEN acct
                     ELSE IF Has(kAccount) THEN Cell(kAccount)
                     ELSE UnknownAccount]

\* lines 278-310: the records of the final table
FinalRecords(rows, cols, dates, amounts, acct) ==
    IF \E i \in 1..Len(rows) : amounts[i].fatal
    THEN [pc |-> "fatal", txns |-> <<>>]
    ELSE IF amounts[1].source = "none"
    THEN [pc |-> "no_txns", txns |-> <<>>]
    ELSE [pc |-> "done",
          txns |-> [i \in 1..Len(rows) |->
                       FinalRecord(rows[i], cols, dates[i], amounts[i].val, acct)]]

\* lines 242-276: the rows left after the date parsing and their amounts
StandardizeRows(rows, cols, dates, cfg, acct) ==
    IF rows = <<>> THEN [pc |-> "no_txns", txns |-> <<>>]
    ELSE FinalRecords(rows, cols, dates,
                      [i \in 1..Len(rows) |-> RowAmount(rows[i], cols, cfg)],
                      acct)

\* lines 237-241: the date of every row; rows without one are dropped
StandardizeDates(rows, cols, dates, cfg, acct) ==
    StandardizeRows(KeepIdx(rows, ParsedDateRows(dates)), cols,
                    KeepIdx(dates, ParsedDateRows(dates)), cfg, acct)

\* lines 231-249 on the renamed columns
StandardizeRenamed(rows, cols, cfg, acct) ==
    IF kDate \notin Range(cols) THEN [pc |-> "fatal", txns |-> <<>>]
    ELSE StandardizeDates(rows, cols,
                          [i \in 1..Len(rows) |->
                              ParseDate(rows[i][ColIndex(cols, kDate)],
                                        cfg.date_formats)],
                          cfg, acct)

\* _standardize_parsed_df: pc is "done" with the records of the final
\* table, "no_txns" for None, "fatal" for log_and_exit
StandardizeFrame(f, cfg, acct) ==
    IF FrameEmpty(f) THEN [pc |-> "no_txns", txns |-> <<>>]
    ELSE StandardizeRenamed(f.rows, RenameColumns(f.cols, cfg.column_map),
                            cfg, acct)

\* ---- get_old_transactions (lines 312-372) ----
\* The sort of line 359 compares two records field by field; comparing a
\* missing value with a string raises TypeError.  Records that agree on
\* the fields before a field get compared on it.
SortRaises(ts) ==
    \E i, j \in 1..Len(ts) :
        /\ ts[i].date = ts[j].date
        /\ \/ (ts[i].account = NA) # (ts[j].account = NA)
           \/ /\ ts[i].account = ts[j].account
              /\ ts[i].amount = ts[j].amount
              /\ (ts[i].description = NA) # (ts[j].description = NA)

\* lines 346-364: the standardized ledger records, sorted
SortedLedger(f, r) ==
    IF r.pc = "fatal" THEN [pc |-> "fatal", df |-> f, txns |-> <<>>]
    ELSE IF r.pc = "no_txns" THEN [pc |-> "done", df |-> f, txns |-> <<>>]
    ELSE IF SortRaises(r.txns) THEN [pc |-> "fatal", df |-> f, txns |-> <<>>]
    ELSE [pc |-> "done", df |-> f, txns |-> SortTxns(r.txns)]

\* lines 329-346 on the cleaned table
LedgerFrame(f) ==
    IF FrameEmpty(f) THEN [pc |-> "done", df |-> NoFrame, txns |-> <<>>]
    ELSE SortedLedger(f, StandardizeFrame(f, LogConfig, <<>>))

\* get_old_transactions on the rows read from the ledger sheet
OldTransactions(rows_read) ==
    IF Len(rows_read) <= 1 THEN [pc |-> "done", df |-> NoFrame, txns |-> <<>>]
    ELSE IF FrameRaises(rows_read[1], Tail(rows_read))
    THEN [pc |-> "fatal", df |-> NoFrame, txns |-> <<>>]
    ELSE LedgerFrame(Frame(rows_read[1],
                           DropEmptyRows(ReplaceEmpty(
                               [i \in 1..(Len(rows_read) - 1) |->
                                   PadRow(rows_read[i + 1], Len(rows_read[1]))]))))

\* ---- statements and ledgers of the runs ----
MaxStmtRows == 2
MaxLeadRows == 1
MaxRowsBeyondScan == 1

\* one data row by canonical column name
RowKind(date, desc, debit, credit, amount, type, category, account) ==
    (kDate :> date) @@ (kDescription :> desc) @@ (kDebit :> debit)
        @@ (kCredit :> credit) @@ (kAmount :> amount) @@ (kType :> type)
        @@ (kCategory :> category) @@ (kRemarks :> <<>>) @@ (kAccount :> account)

vDay23 == <<"2", "3", "/", "0", "1", "/", "2", "0", "2", "4">>
vDay24Iso == <<"2", "0", "2", "4", "-", "0", "1", "-", "2", "4">>
vBadDate == <<"b", "a", "d">>
vFood == <<"F", "o", "o", "d">>

\* a debit of 1.50 with every cell filled
KDebit ==
    RowKind(vDay23, <<"A", "b">>, <<"1", ".", "5", "0">>, <<>>,
            <<"2", ".", "0", "0">>, cDebit, vFood, <<"C">>)
\* a credit on another day, no sign, category or account
KCredit ==
    RowKind(vDay24Iso, <<"A", "b">>, <<>>, <<"0", ".", "2", "5">>,
            <<"3", ".", "0", "0">>, <<>>, <<>>, <<>>)
\* a date that no format and no inference reads
KBadDate ==
    RowKind(vBadDate, <<"A", "b">>, <<"1", ".", "0", "0">>, <<>>,
            <<"1", ".", "0", "0">>, <<"C", "r">>, vFood, <<"C">>)
\* no date
KNoDate ==
    RowKind(<<>>, <<"a", "b">>, <<>>, <<"1", ".", "0", "0">>,
            <<"1", ".", "0", "0">>, <<>>, vFood, <<"B">>)
\* an amount in brackets and a sign in lower case
KBracket ==
    RowKind(vDay23, <<>>, <<>>, <<>>, <<"(", "1", ".", "0", "0", ")">>,
            Lower(cDebit), <<>>, <<"B">>)
\* amounts that are no numbers
KBadAmount ==
    RowKind(vDay23, <<"A", "b">>, <<"x">>, <<>>, <<"x">>, <<>>, vFood, <<"B">>)
\* the day of KDebit without sign and account
KSameDay ==
    RowKind(vDay23, <<"A", "b">>, <<>>, <<"2", ".", "0", "0">>,
            <<"2", ".", "0", "0">>, <<>>, vFood, <<>>)
\* a row without any value
KEmpty == RowKind(<<>>, <<>>, <<>>, <<>>, <<>>, <<>>, <<>>, <<>>)

RowKinds ==
    {KDebit, KCredit, KBadDate, KNoDate, KBracket, KBadAmount, KSameDay, KEmpty}

HDebitCredit == <<cDate, cDescription, cDebit, cCredit>>
HSigned == <<cDate, cDescription, cAmount, cType>>
HAmount == <<cDate, cDescription, cAmount>>
HAllSources == <<cDATE, cDescription, cDebit, cCredit, cAmount>>
HNoAmount == <<cDate, cDescription>>
HNoDate == <<cDescription, cAmount>>
HDebitOnly == <<cDate, cDescription, cDebit, cAmount, cType>>

StatementHeaders ==
    {HDebitCredit, HSigned, HAmount, HAllSources, HNoAmount, HNoDate, HDebitOnly}

\* EXPECTED_SHEET_COLUMNS, and a ledger sheet without the Account column
HLedger ==
    <<cDate, cDescription, cDebit, cCredit, cCategory, cRemarks, cAccount>>
HLedgerNoAccount == <<cDate, cDescription, cDebit, cCredit, cCategory, cRemarks>>

LedgerHeaders == {HLedger, HLedgerNoAccount}

TitleRow == << <<"S", "u", "m", "m", "a", "r", "y">> >>

RowFor(kind, header) == [j \in 1..Len(header) |-> kind[Lower(header[j])]]

\* lead title rows, the header row and the data rows
TableOf(lead, header, kinds) ==
    [i \in 1..lead |-> TitleRow] \o <<header>>
        \o [i \in 1..Len(kinds) |-> RowFor(kinds[i], header)]

\* statements of at most MaxStmtRows rows next to the header row, at most
\* MaxLeadRows of them title rows above it
StatementTables ==
    UNION {{TableOf(lead, h, ks) : h \in StatementHeaders,
                                   ks \in SeqsUpTo(RowKinds, MaxStmtRows - lead)} :
           lead \in 0..MaxLeadRows}

LedgerTables ==
    {TableOf(0, h, ks) : h \in LedgerHeaders,
                         ks \in SeqsUpTo(RowKinds, MaxStmtRows)}

\* ---- statements of the header detection runs ----
wDate == <<"D", "a", "t", "e">>
wNarr == <<"N", "a", "r", "r">>
wAmt == <<"A", "m", "t">>
wBal == <<"B", "a", "l">>
wRef == <<"R", "e", "f">>
wVal == <<"V", "a", "l">>

\* a profile with a pattern of four keywords and a pattern of two
PHeader ==
    Profile(<< <<wDate, wNarr, wAmt, wBal>>, <<wRef, wVal>> >>,
            << <<wDate, kDate>>, <<wNarr, kDescription>>, <<wAmt, kAmount>> >>,
            <<FmtIso>>, <<>>, <<>>)

\* all four keywords of the first pattern
HFull == <<wDate, wNarr, wAmt, wBal>>
\* three of the four, in other letter case and inside longer cells
HThree == <<<<"D", "A", "T", "E">>, <<"a", "N", "a", "r", "r">>, <<"A", "M", "T">>, <<"x">>>>
\* two of the four
HTwo == <<wDate, wNarr, <<"x">>, <<"y">>>>
\* both keywords of the second pattern
HAlt == <<wRef, wVal, <<"x">>, <<"y">>>>
\* a data row: no keyword
HData == <<<<"1">>, <<"x">>, <<"2">>, <<"y">>>>

HeaderRowKinds == {HFull, HThree, HTwo, HAlt}

\* the statement lengths: one or two rows, and lengths around the number
\* of rows that the scan looks at
HeaderLengths ==
    {n \in 1..(30 + MaxRowsBeyondScan) : n <= 2 \/ n >= 30 - 1}

\* the rows where a header row kind is put: the first two, a row in the
\* middle of the scanned rows, and the rows around the end of the scan
HeaderPositions ==
    {n \in 1..(30 + MaxRowsBeyondScan) : n <= 2 \/ n = 15 \/ n >= 30 - 1}

\* a statement of n rows: data rows but for rows p1 and p2
HeaderTable(n, p1, k1, p2, k2) ==
    [i \in 1..n |-> IF i = p1 THEN k1 ELSE IF i = p2 THEN k2 ELSE HData]

HeaderTables ==
    {HeaderTable(n, pp[1], k1, pp[2], k2) :
        n \in HeaderLengths,
        pp \in {q \in HeaderPositions \X HeaderPositions : q[1] <= q[2]},
        k1 \in HeaderRowKinds, k2 \in HeaderRowKinds}
\* ---- actions ----
ProcIdle ==
    /\ raw_data = <<>>
    /\ config = LogConfig
    /\ account_name = <<>>
    /\ source = "idle"
    /\ best_header_row_index = -1
    /\ df = NoFrame
    /\ std_txns = <<>>
    /\ ppc = "idle"

\* the outcome r of a call becomes the state
ParseOutcome(r) ==
    /\ best_header_row_index' = r.header
    /\ df' = r.df
    /\ ppc' = r.pc

StandardizeOutcome(r) ==
    /\ std_txns' = r.txns
    /\ ppc' = r.pc

LedgerOutcome(r) ==
    /\ df' = r.df
    /\ std_txns' = r.txns
    /\ ppc' = r.pc

\* lines 427-428: _parse_statement_data_with_pandas on the sheet of a
\* statement file
ParseStatement ==
    /\ ppc = "start"
    /\ source = "statement"
    /\ ParseOutcome(ParseStatementData(raw_data, config))
    /\ UNCHANGED <<raw_data, config, account_name, source, std_txns>>

\* lines 429-434: _standardize_parsed_df on the parsed table
StandardizeDf ==
    /\ ppc = "parsed"
    /\ StandardizeOutcome(StandardizeFrame(df, config, account_name))
    /\ UNCHANGED <<raw_data, config, account_name, source,
                   best_header_row_index, df>>

\* get_old_transactions on the ledger sheet
GetOldTransactions ==
    /\ ppc = "start"
    /\ source = "ledger"
    /\ LedgerOutcome(OldTransactions(raw_data))
    /\ UNCHANGED <<raw_data, config, account_name, source,
                   best_header_row_index>>

\* ------------------------------------------------------------------------
\* TransactionProcessor._parse_amount as a call of its own
\* ------------------------------------------------------------------------
\* magnitudes: <<text, value in thousandths>>
Magnitudes ==
    { << <<"1", ".", "5", "0">>, 1500 >>,
      << <<"1", ",", "0", "0", "5", ".", "5", "0">>, 1005500 >>,
      << <<"2">>, 2000 >>,
      << <<"0", ".", "2", "5">>, 250 >>,
      << <<"0">>, 0 >> }

Glyphs == {<<>>, <<"₹">>, <<"$">>}

CrSuffixes == {<<" ", "C", "r">>, <<" ", "C", "R">>, <<" ", "c", "r">>, <<" ", "c", "R">>}
DrSuffixes == {<<" ", "D", "r">>, <<" ", "D", "R">>, <<" ", "d", "r">>, <<" ", "d", "R">>}

\* the sign markers of an amount cell: none, brackets, or a suffix
Markers == {<<>>, <<"(", ")">>} \cup CrSuffixes \cup DrSuffixes

AmountCase(kind, glyph, mag, marker) ==
    [kind |-> kind, glyph |-> glyph, mag |-> mag, marker |-> marker]

\* the text of a marked magnitude
MarkedText(c) ==
    IF c.marker = <<"(", ")">> THEN <<"(">> \o c.glyph \o c.mag[1] \o <<")">>
    ELSE c.glyph \o c.mag[1] \o c.marker

MarkedCases ==
    {AmountCase("marked", g, m, k) : g \in Glyphs, m \in Magnitudes, k \in Markers}

\* other arguments: None, "", text that is no number, a signed number, a
\* percentage, a number with spaces around it
OtherValues ==
    {NA, <<>>, <<"x">>, <<"1", ".", "5", "x">>, <<"-", "1", ".", "5", "0">>,
     <<"5", "0", ".", "0", "%">>, <<" ", "2", " ">>, <<"-">>, <<"1", ".", "2", ".", "3">>}

AmountIdle ==
    /\ amount_arg = <<>>
    /\ amount_case = AmountCase("idle", <<>>, <<<<>>, 0>>, <<>>)
    /\ amount_ret = 0
    /\ apc = "idle"

AmountInit ==
    /\ \/ /\ amount_case \in MarkedCases
          /\ amount_arg = MarkedText(amount_case)
       \/ /\ amount_arg \in OtherValues
          /\ amount_case = AmountCase("other", <<>>, <<<<>>, 0>>, <<>>)
    /\ amount_ret = 0
    /\ apc = "call"

\* _parse_amount(value): returns the number, or leaves through
\* log_and_exit (sys.exit) at line 53
ParseAmountCall ==
    /\ apc = "call"
    /\ apc' = IF ParseAmount(amount_arg).fatal THEN "exit" ELSE "returned"
    /\ amount_ret' = ParseAmount(amount_arg).val
    /\ UNCHANGED <<amount_arg, amount_case>>

\* ------------------------------------------------------------------------
\* utils.parse_mixed_datetime as a call of its own
\* ------------------------------------------------------------------------
MaxFormats == 2

\* date cells: read differently day first and month first, read by one
\* format only, by none, with quotes and spaces around, with text left
\* over after the date
DateValues ==
    {NA, <<>>, <<" ">>, vBadDate, vDay23, vDay24Iso,
     <<"0", "1", "/", "0", "2", "/", "2", "0", "2", "4">>,
     <<"0", "1", "/", "2", "3", "/", "2", "0", "2", "4">>,
     <<"3", "1", "/", "0", "2", "/", "2", "0", "2", "4">>,
     <<"1", "/", "2", "/", "2", "0", "2", "4">>,
     <<"'", "0", "2", "/", "0", "1", "/", "2", "0", "2", "4", " ">>,
     <<"2", "3", "/", "0", "1", "/", "2", "0", "2", "4", "x">>}

DateFormats == {FmtIso, FmtDayFirst, FmtMonthFirst}

DateIdle ==
    /\ date_arg = <<>>
    /\ formats_arg = <<>>
    /\ date_ret = NoDate
    /\ dpc = "idle"

DateInit ==
    /\ date_arg \in DateValues
    /\ formats_arg \in SeqsUpTo(DateFormats, MaxFormats)
    /\ date_ret = NoDate
    /\ dpc = "call"

\* parse_mixed_datetime(logger, date_str, formats)
ParseMixedDatetime ==
    /\ dpc = "call"
    /\ date_ret' = ParseDate(date_arg, formats_arg)
    /\ dpc' = "returned"
    /\ UNCHANGED <<date_arg, formats_arg>>

\* ------------------------------------------------------------------------
\* TransactionProcessor._format_txns_for_storage and the ledger round trip
\* ------------------------------------------------------------------------
MaxStored == 2

RECURSIVE NatText(_)
\* str(n) of a natural number
NatText(n) ==
    IF n < 10 THEN <<Digits[n + 1]>>
    ELSE Append(NatText(n \div 10), Digits[(n % 10) + 1])

RECURSIVE ZeroPad(_, _)
\* the text s filled with zeros on the left to n characters
ZeroPad(s, n) == IF Len(s) >= n THEN s ELSE ZeroPad(<<"0">> \o s, n)

\* the day, month and year of a day number
DayOf(n) == ((n - 1) % 31) + 1
MonthOf(n) == (((n - DayOf(n)) \div 31) % 12) + 1
YearOf(n) == ((n - DayOf(n)) \div 31) \div 12

\* txn["date"].strftime("%Y-%m-%d") at line 482: the time is not written
StrftimeIso(date) ==
    ZeroPad(NatText(YearOf(date[1])), 4) \o <<"-">>
        \o ZeroPad(NatText(MonthOf(date[1])), 2) \o <<"-">>
        \o ZeroPad(NatText(DayOf(date[1])), 2)

\* f"{x:.2f}" of x >= 0 in thousandths
FormatFixed2(x) ==
    NatText(Fmt2(x).cents \div 100) \o <<".">>
        \o ZeroPad(NatText(Fmt2(x).cents % 100), 2)

\* lines 480-502: the ledger row of one transaction
StorageRow(txn) ==
    <<StrftimeIso(txn.date),
      txn.description,
      IF txn.amount < 0 THEN FormatFixed2(-txn.amount) ELSE <<>>,
      IF txn.amount >= 0 THEN FormatFixed2(txn.amount) ELSE <<>>,
      txn.category,
      txn.remarks,
      txn.account>>

\* _format_txns_for_storage(txns)
FormatTxnsForStorage(ts) == [i \in 1..Len(ts) |-> StorageRow(ts[i])]

CanonTxn(date, desc, amt, cat, rem, acct) ==
    [date |-> date, description |-> desc, amount |-> amt, category |-> cat,
     remarks |-> rem, account |-> acct]

\* canonical transactions: a debit, a credit, a zero amount, a large
\* amount, a transaction with a time of day, one without description
SDebit ==
    CanonTxn(<<DayNumber(2024, 1, 23), 0>>, <<"A", "b">>, -1500, vFood, <<>>, <<"B">>)
SCredit ==
    CanonTxn(<<DayNumber(2024, 1, 24), 0>>, <<"A", "b">>, 2000,
             DefaultCategoryCell, <<"r">>, <<"C">>)
SZero ==
    CanonTxn(<<DayNumber(2024, 1, 23), 0>>, <<"C", "d">>, 0, vFood, <<>>, <<"B">>)
SLarge ==
    CanonTxn(<<DayNumber(2023, 12, 31), 0>>, <<"A", "b">>, 1005500, vFood, <<>>, <<"C">>)
STimed ==
    CanonTxn(<<DayNumber(2024, 1, 23), 34200>>, <<"A", "b">>, -250, vFood, <<>>, <<"B">>)
SNoDesc ==
    CanonTxn(<<DayNumber(2024, 1, 23), 0>>, <<>>, -1500, vFood, <<>>, <<"B">>)

StoredTxns == {SDebit, SCredit, SZero, SLarge, STimed, SNoDesc}

StoreIdle == stored_txns = <<>>

\* the ledger is written and then read back
RoundTripInit ==
    /\ stored_txns \in SeqsUpTo(StoredTxns, MaxStored)
    /\ raw_data = <<>>
    /\ config = LogConfig
    /\ account_name = <<>>
    /\ source = "ledger"
    /\ best_header_row_index = -1
    /\ df = NoFrame
    /\ std_txns = <<>>
    /\ ppc = "format"

\* overwrite_transaction_log (lines 514-521): the rows of
\* _format_txns_for_storage are written below the header of the sheet
WriteLedger ==
    /\ ppc = "format"
    /\ raw_data' = <<HLedger>> \o FormatTxnsForStorage(stored_txns)
    /\ ppc' = "start"
    /\ UNCHANGED <<config, account_name, source, best_header_row_index, df,
                   std_txns, stored_txns>>

\* ------------------------------------------------------------------------
\* TransactionProcessor.overwrite_transaction_log
\* ------------------------------------------------------------------------
ClearCall(log_type) == [method |-> "clear_transaction_log_range", log_type |-> log_type, rows |-> <<>>]
WriteCall(log_type, rows) ==
    [method |-> "write_transactions_to_log", log_type |-> log_type, rows |-> rows]

\* a guard that lets every list through
NothingToOverwriteNever(ts) == FALSE

\* line 515: if not txns
NothingToOverwrite(ts) == ts = <<>>

OverwriteIdle ==
    /\ account_type = "bank"
    /\ ds_calls = <<>>
    /\ ds_returned = 0
    /\ opc = "idle"

OverwriteInit ==
    /\ stored_txns \in SeqsUpTo(StoredTxns, MaxStored)
    /\ account_type \in {"bank", "cc"}
    /\ ds_calls = <<>>
    /\ ds_returned = 0
    /\ opc = "call"

\* lines 515-520: an empty list returns at once; otherwise the rows are
\* formatted and clear_transaction_log_range is called
OverwriteCall ==
    /\ opc = "call"
    /\ IF NothingToOverwrite(stored_txns)
       THEN opc' = "returned" /\ UNCHANGED ds_calls
       ELSE /\ ds_calls' = Append(ds_calls, ClearCall(account_type))
            /\ opc' = "in_clear"
    /\ UNCHANGED <<stored_txns, account_type, ds_returned>>

\* the clear returns and line 521 calls write_transactions_to_log
ClearReturns ==
    /\ opc = "in_clear"
    /\ ds_returned' = ds_returned + 1
    /\ ds_calls' = Append(ds_calls,
                          WriteCall(account_type, FormatTxnsForStorage(stored_txns)))
    /\ opc' = "in_write"
    /\ UNCHANGED <<stored_txns, account_type>>

\* the clear raises: the exception leaves overwrite_transaction_log
ClearRaises ==
    /\ opc = "in_clear"
    /\ opc' = "raised"
    /\ UNCHANGED <<stored_txns, account_type, ds_calls, ds_returned>>

\* the write returns and so does overwrite_transaction_log
WriteReturns ==
    /\ opc = "in_write"
    /\ ds_returned' = ds_returned + 1
    /\ opc' = "returned"
    /\ UNCHANGED <<stored_txns, account_type, ds_calls>>

\* the write ends in the fatal exit of its retry wrapper
WriteExits ==
    /\ opc = "in_write"
    /\ opc' = "exit"
    /\ UNCHANGED <<stored_txns, account_type, ds_calls, ds_returned>>

\* ------------------------------------------------------------------------
\* SQLiteBackupManager (src/src/backup_manager.py)
\* ------------------------------------------------------------------------
MaxBackups == 3

\* f"{x:.2f}" of a signed amount in thousandths
FormatSigned2(x) ==
    IF Fmt2(x).neg THEN <<"-">> \o FormatFixed2(-x) ELSE FormatFixed2(x)

\* lines 75-85: the string that is hashed.  The model takes the string
\* for its SHA-256 hash: distinct strings have distinct hashes.
GenerateTxnId(txn) ==
    StrftimeIso(txn.date) \o <<"-">> \o txn.account \o <<"-">>
        \o FormatSigned2(txn.amount) \o <<"-">> \o txn.description

\* datetime.isoformat() of a datetime without microseconds (line 108)
IsoFormat(date) ==
    StrftimeIso(date) \o <<"T">>
        \o ZeroPad(NatText(date[2] \div 3600), 2) \o <<":">>
        \o ZeroPad(NatText((date[2] % 3600) \div 60), 2) \o <<":">>
        \o ZeroPad(NatText(date[2] % 60), 2)

\* datetime.fromisoformat(s) at line 146; a text that is no such date
\* stays as it is (lines 147-150)
FromIsoFormat(s) ==
    IF /\ Len(s) = 19
       /\ s[5] = "-" /\ s[8] = "-" /\ s[11] = "T" /\ s[14] = ":" /\ s[17] = ":"
       /\ AllDigits(SubSeq(s, 1, 4) \o SubSeq(s, 6, 7) \o SubSeq(s, 9, 10)
                      \o SubSeq(s, 12, 13) \o SubSeq(s, 15, 16) \o SubSeq(s, 18, 19))
    THEN <<DayNumber(NatVal(SubSeq(s, 1, 4)), NatVal(SubSeq(s, 6, 7)),
                     NatVal(SubSeq(s, 9, 10))),
           3600 * NatVal(SubSeq(s, 12, 13)) + 60 * NatVal(SubSeq(s, 15, 16))
               + NatVal(SubSeq(s, 18, 19))>>
    ELSE s

\* lines 101-111: the tuple of one transaction
SqlTuple(txn) ==
    [id |-> GenerateTxnId(txn), date |-> IsoFormat(txn.date),
     description |-> txn.description, amount |-> txn.amount,
     category |-> txn.category, remarks |-> txn.remarks, account |-> txn.account]

\* an insert that keeps the row that is there
InsertOrIgnore(rows, t) ==
    IF \E i \in 1..Len(rows) : rows[i].id = t.id THEN rows ELSE Append(rows, t)

\* INSERT OR REPLACE (lines 113-119): the row with the id is deleted and
\* the new row is added
InsertOrReplace(rows, t) ==
    Append(SelectSeq(rows, LAMBDA r : r.id # t.id), t)

RECURSIVE UpsertAll(_, _, _)
\* the loop of lines 100-120 from transaction i on
UpsertAll(rows, ts, i) ==
    IF i > Len(ts) THEN rows
    ELSE UpsertAll(InsertOrReplace(rows, SqlTuple(ts[i])), ts, i + 1)

\* lines 142-151: the dict of one row
RestoredTxn(r) ==
    [date |-> FromIsoFormat(r.date), description |-> r.description,
     amount |-> r.amount, category |-> r.category, remarks |-> r.remarks,
     account |-> r.account]

\* transactions with one identity: as first backed up, recategorized at
\* another time of the day, with an amount that differs below a
\* hundredth; and a transaction with another identity
BFirst ==
    CanonTxn(<<DayNumber(2024, 7, 10), 36000>>, <<"A", "b">>, -4500, vFood, <<>>, <<"B">>)
BRecat ==
    CanonTxn(<<DayNumber(2024, 7, 10), 55800>>, <<"A", "b">>, -4500,
             DefaultCategoryCell, <<"r">>, <<"B">>)
BCloseAmount ==
    CanonTxn(<<DayNumber(2024, 7, 10), 36000>>, <<"A", "b">>, -4504, <<"X">>, <<>>, <<"B">>)
BOther ==
    CanonTxn(<<DayNumber(2024, 7, 11), 0>>, <<"C", "d">>, 2500000, vFood, <<>>, <<"C">>)

\* the lists handed to backup
BackupBatches ==
    {<<>>, <<BFirst>>, <<BRecat>>, <<BFirst, BOther>>, <<BOther, BCloseAmount>>,
     <<BFirst, BRecat>>}

BackupIdle ==
    /\ db_rows = <<>>
    /\ backup_calls = <<>>
    /\ restored_txns = <<>>
    /\ bpc = "idle"

\* __init__ and _create_table: an empty table
BackupInit ==
    /\ db_rows = <<>>
    /\ backup_calls = <<>>
    /\ restored_txns = <<>>
    /\ bpc = "ready"

\* backup(transactions): an empty list changes nothing (lines 92-94), the
\* others are upserted in one database transaction
Backup ==
    /\ bpc = "ready"
    /\ Len(backup_calls) < MaxBackups
    /\ \E transactions \in BackupBatches :
          /\ backup_calls' = Append(backup_calls, transactions)
          /\ db_rows' = UpsertAll(db_rows, transactions, 1)
    /\ UNCHANGED <<restored_txns, bpc>>

\* restore(): every row of the table as a transaction
Restore ==
    /\ bpc = "ready"
    /\ restored_txns' = [i \in 1..Len(db_rows) |-> RestoredTxn(db_rows[i])]
    /\ UNCHANGED <<db_rows, backup_calls, bpc>>

\* ------------------------------------------------------------------------
\* retry_on_gcp_error (src/src/google_data_source.py)
\* ------------------------------------------------------------------------
max_retries == 3
initial_backoff == 5

\* the wrapper has returned nothing
NoValue == <<<<"<no value>">>>>

\* the values a wrapped call returns
SheetValues == {<<>>, <<<<"final_data">>>>}

\* the statuses of the GoogleHttpError a wrapped call raises
HttpStatuses == {400, 401, 403, 404, 429, 500, 502, 503}

\* a wrapper that retries after every status
RetryableAny(status) == TRUE

\* line 39: e.resp.status in [429, 500, 503]
Retryable(status) == status \in {429, 500, 503}

\* line 40: initial_backoff * (2**attempt)
WaitTime(attempt) == initial_backoff * 2 ^ attempt

RetryIdle ==
    /\ retry_attempt = 0
    /\ attempt_log = <<>>
    /\ sleep_log = <<>>
    /\ retry_ret = NoValue
    /\ rpc = "idle"

\* the wrapper is entered: range(max_retries) is empty only when
\* max_retries is 0, and line 57 then ends the call
RetryInit ==
    /\ retry_attempt = 0
    /\ attempt_log = <<>>
    /\ sleep_log = <<>>
    /\ retry_ret = NoValue
    /\ rpc = IF 0 < max_retries THEN "try" ELSE "exit"

\* line 37: the wrapped function returns
AttemptReturns ==
    /\ rpc = "try"
    /\ \E values \in SheetValues :
          /\ attempt_log' = Append(attempt_log, [kind |-> "ok", value |-> values])
          /\ retry_ret' = values
    /\ rpc' = "returned"
    /\ UNCHANGED <<retry_attempt, sleep_log>>

\* lines 38-50: the wrapped function raises GoogleHttpError; after the
\* sleep the loop goes on, and ends at line 57 when no attempt is left
AttemptHttpError ==
    /\ rpc = "try"
    /\ \E status \in HttpStatuses :
          /\ attempt_log' = Append(attempt_log, [kind |-> "http", status |-> status])
          /\ IF Retryable(status) /\ retry_attempt < max_retries - 1
             THEN /\ sleep_log' = Append(sleep_log, WaitTime(retry_attempt))
                  /\ retry_attempt' = retry_attempt + 1
                  /\ rpc' = IF retry_attempt + 1 < max_retries THEN "try" ELSE "exit"
             ELSE /\ rpc' = "exit"
                  /\ UNCHANGED <<retry_attempt, sleep_log>>
    /\ UNCHANGED retry_ret

\* lines 51-56: the wrapped function raises another Exception
AttemptException ==
    /\ rpc = "try"
    /\ attempt_log' = Append(attempt_log, [kind |-> "exception"])
    /\ rpc' = "exit"
    /\ UNCHANGED <<retry_attempt, sleep_log, retry_ret>>

\* ------------------------------------------------------------------------
\* TransactionProcessor.get_new_transactions_from_statements
\* (src/src/transaction_processor.py, lines 56-107 and 374-476)
\* ------------------------------------------------------------------------
MaxFiles == 2

tBank == <<"b", "a", "n", "k">>
tCc == <<"c", "c">>

\* the account names of the settings; each holds a "-"
aBankAx == <<"k", "-", "a", "x">>
aBankZz == <<"k", "-", "z", "z">>
aCardAx == <<"m", "-", "a", "x">>
bank_accounts == <<aBankAx, aBankZz>>
cc_accounts == <<aCardAx>>
Accounts == {aBankAx, aBankZz, aCardAx}

\* PARSING_CONFIG: the profiles by key
PARSING_CONFIG ==
    {<<<<"b", "a", "n", "k", "-", "a", "x">>, PBank>>, <<<<"c", "c", "-", "a", "x">>, PSigned>>}

ConfigKeys == {kc[1] : kc \in PARSING_CONFIG}
ConfigOf(key) == (CHOOSE kc \in PARSING_CONFIG : kc[1] = key)[2]

RECURSIVE Split(_, _)
\* str.split(c)
Split(s, c) ==
    IF \A i \in 1..Len(s) : s[i] # c THEN <<s>>
    ELSE <<SubSeq(s, 1, SetMin({i \in 1..Len(s) : s[i] = c}) - 1)>>
            \o Split(SubSeq(s, SetMin({i \in 1..Len(s) : s[i] = c}) + 1, Len(s)), c)

\* lines 62-65: the first account of the list that the name holds
MatchedAccounts(filename, account_list) ==
    {k \in 1..Len(account_list) : IsSubstr(Lower(account_list[k]), Lower(filename))}

\* len(part) == n and part.isdigit()
IsNumberOfLen(part, n) == Len(part) = n /\ AllDigits(part)

\* lines 75-79: datetime(year, 12, 31); year 0 raises ValueError
BankEndDate(date_part) ==
    IF IsNumberOfLen(date_part, 4) /\ NatVal(date_part) >= 1
    THEN <<DayNumber(NatVal(date_part), 12, 31), 0>>
    ELSE NoDate

\* lines 81-96: the last day of the month; a month outside 1..12 and the
\* year 0 raise ValueError
CardEndDate(year_part, month_part) ==
    IF /\ IsNumberOfLen(year_part, 4) /\ IsNumberOfLen(month_part, 2)
       /\ NatVal(year_part) >= 1 /\ NatVal(month_part) \in 1..12
    THEN <<DayNumber(NatVal(year_part), NatVal(month_part),
                     DaysInMonth(NatVal(year_part), NatVal(month_part))), 0>>
    ELSE NoDate

\* lines 69-107 on the parts of the base name; parts[-2] of a single part
\* raises IndexError
EndDateOfParts(parts, acct_type) ==
    IF acct_type = tBank THEN BankEndDate(Strip(parts[Len(parts)]))
    ELSE IF Len(parts) < 2 THEN NoDate
    ELSE CardEndDate(Strip(parts[Len(parts) - 1]), Strip(parts[Len(parts)]))

\* the statement end date of a file name
StmtEndDate(filename, acct_type) ==
    EndDateOfParts(Split(Split(Lower(filename), ".")[1], "-"), acct_type)

\* _get_account_and_date_from_filename; <<>> is the account None
GetAccountAndDateFromFilename(filename, account_list, acct_type) ==
    IF MatchedAccounts(filename, account_list) = {}
    THEN [account |-> <<>>, end_date |-> NoDate]
    ELSE [account |-> account_list[SetMin(MatchedAccounts(filename, account_list))],
          end_date |-> StmtEndDate(filename, acct_type)]

\* a skip rule that lets the statement of the latest day through
CoveredStrict(last_txn_date, stmt_end_date) ==
    /\ last_txn_date # NoDate
    /\ stmt_end_date # NoDate
    /\ last_txn_date[1] > stmt_end_date[1]

\* lines 396-400
Covered(last_txn_date, stmt_end_date) ==
    /\ last_txn_date # NoDate
    /\ stmt_end_date # NoDate
    /\ last_txn_date[1] >= stmt_end_date[1]

\* line 406
ConfigKey(acct_type, matched_account) ==
    acct_type \o <<"-">> \o Split(matched_account, "-")[2]

\* a filter that keeps the transactions of the latest timestamp
AtOrAfter(date, last_txn_date) == ~DateLess(date, last_txn_date)

\* line 449: txn["date"] > last_txn_date
After(date, last_txn_date) == DateLess(last_txn_date, date)

\* lines 435-455: the records with a date, later than the latest date
\* when there is one
NewFileTxns(file_txns, last_txn_date) ==
    SelectSeq(file_txns,
              LAMBDA txn : /\ txn.date # NoDate
                           /\ last_txn_date # NoDate => After(txn.date, last_txn_date))

\* what one pass of the loop body does: the data-source calls made, the
\* transactions added, and whether the pass ended in log_and_exit
Pass(name_called, data_called, file_txns, exits) ==
    [name_called |-> name_called, data_called |-> data_called,
     txns |-> file_txns, exits |-> exits]

\* lines 429-464 on the standardized records
PassOfStandardized(r, last_txn_date) ==
    IF r.pc = "fatal" THEN Pass(TRUE, TRUE, <<>>, TRUE)
    ELSE IF r.pc = "no_txns" THEN Pass(TRUE, TRUE, <<>>, FALSE)
    ELSE Pass(TRUE, TRUE, NewFileTxns(r.txns, last_txn_date), FALSE)

\* lines 427-464 on the parsed table
PassOfParsed(r, cfg, matched_account, last_txn_date) ==
    IF r.pc = "fatal" THEN Pass(TRUE, TRUE, <<>>, TRUE)
    ELSE IF r.pc = "no_frame" THEN Pass(TRUE, TRUE, <<>>, FALSE)
    ELSE PassOfStandardized(StandardizeFrame(r.df, cfg, matched_account),
                            last_txn_date)

\* lines 414-464: the sheet is fetched and processed
PassOfFetched(file, cfg, matched_account, last_txn_date) ==
    IF file.sheet_name = <<>> THEN Pass(TRUE, FALSE, <<>>, FALSE)
    ELSE IF file.data = <<>> THEN Pass(TRUE, TRUE, <<>>, FALSE)
    ELSE PassOfParsed(ParseStatementData(file.data, cfg), cfg, matched_account,
                      last_txn_date)

\* lines 395-413 for the file of a matched account
PassOfMatched(file, acct_type, latest, m) ==
    IF Covered(latest[m.account], m.end_date) THEN Pass(FALSE, FALSE, <<>>, FALSE)
    ELSE IF ConfigKey(acct_type, m.account) \notin ConfigKeys
    THEN Pass(FALSE, FALSE, <<>>, FALSE)
    ELSE PassOfFetched(file, ConfigOf(ConfigKey(acct_type, m.account)),
                       m.account, latest[m.account])

\* lines 386-393
PassOfNamed(file, acct_type, latest, m) ==
    IF m.account = <<>> THEN Pass(FALSE, FALSE, <<>>, FALSE)
    ELSE PassOfMatched(file, acct_type, latest, m)

\* lines 385-464: the loop body for one file
PassOfFile(file, acct_type, latest) ==
    IF file.id = <<>> \/ ~IsSubstr(acct_type, Lower(file.name))
    THEN Pass(FALSE, FALSE, <<>>, FALSE)
    ELSE PassOfNamed(file, acct_type, latest,
                     GetAccountAndDateFromFilename(
                         file.name,
                         IF acct_type = tBank THEN bank_accounts ELSE cc_accounts,
                         acct_type))

\* ---- the statement files of the runs ----
DataSourceFile(name, id, sheet_name, data) ==
    [name |-> name, id |-> id, sheet_name |-> sheet_name, data |-> data]

Sheet1 == <<"S", "h", "e", "e", "t", "1">>

\* a debit on 23 January 2024 and a credit on the 24th
TGood == TableOf(0, HDebitCredit, <<KDebit, KCredit>>)
\* a credit on 23 January 2024
TSameDay == TableOf(0, HDebitCredit, <<KSameDay>>)
\* no date column
TNoDate == TableOf(0, HNoDate, <<KDebit>>)
\* neither debit and credit columns nor an amount column
TNoAmount == TableOf(0, HNoAmount, <<KDebit>>)
\* a row longer than the header row
TRagged == <<HDebitCredit, RowFor(KDebit, HAllSources)>>
\* a card statement
TCard == TableOf(0, HSigned, <<KDebit, KBracket>>)

FNew == DataSourceFile(<<"b", "a", "n", "k", "-", "k", "-", "a", "x", "-", "2", "0", "2", "4", ".", "c", "s", "v">>, <<"1">>, Sheet1, TGood)
FOld == DataSourceFile(<<"b", "a", "n", "k", "-", "k", "-", "a", "x", "-", "2", "0", "2", "3">>, <<"2">>, Sheet1, TGood)
FNoEnd == DataSourceFile(<<"B", "a", "n", "k", "-", "K", "-", "A", "X", "-", "n", "e", "w">>, <<"3">>, Sheet1, TSameDay)
FNoConfig == DataSourceFile(<<"b", "a", "n", "k", "-", "k", "-", "z", "z", "-", "2", "0", "2", "4">>, <<"4">>, Sheet1, TGood)
FNoDateCol == DataSourceFile(<<"b", "a", "n", "k", "-", "k", "-", "a", "x", "-", "2", "0", "2", "5">>, <<"5">>, Sheet1, TNoDate)
FNoAmount == DataSourceFile(<<"b", "a", "n", "k", "-", "k", "-", "a", "x", "-", "2", "0", "2", "6">>, <<"6">>, Sheet1, TNoAmount)
FRagged == DataSourceFile(<<"b", "a", "n", "k", "-", "k", "-", "a", "x", "-", "2", "0", "2", "7">>, <<"7">>, Sheet1, TRagged)
FCard == DataSourceFile(<<"c", "c", "-", "m", "-", "a", "x", "-", "2", "0", "2", "4", "-", "0", "1">>, <<"8">>, Sheet1, TCard)
FCardBadMonth == DataSourceFile(<<"c", "c", "-", "m", "-", "a", "x", "-", "2", "0", "2", "4", "-", "1", "3">>, <<"9">>, Sheet1, TCard)
FNoId == DataSourceFile(<<"b", "a", "n", "k", "-", "k", "-", "a", "x", "-", "2", "0", "2", "4", ".", "c", "s", "v">>, <<>>, Sheet1, TGood)
FNoSheet == DataSourceFile(<<"b", "a", "n", "k", "-", "k", "-", "a", "x", "-", "2", "0", "2", "4", ".", "c", "s", "v">>, <<"1", "1">>, <<>>, TGood)
FNoData == DataSourceFile(<<"b", "a", "n", "k", "-", "k", "-", "a", "x", "-", "2", "0", "2", "4", ".", "c", "s", "v">>, <<"1", "2">>, Sheet1, <<>>)
FOtherName == DataSourceFile(<<"b", "a", "n", "k", "-", "n", "o", "t", "e", "s", "-", "2", "0", "2", "4">>, <<"1", "3">>, Sheet1, TGood)

StatementFiles ==
    {FNew, FOld, FNoEnd, FNoConfig, FNoDateCol, FNoAmount, FRagged, FCard,
     FCardBadMonth, FNoId, FNoSheet, FNoData, FOtherName}

\* no account has a ledger date
LatestNone == [a \in Accounts |-> NoDate]
\* the bank account at 23 January 2024 00:00, the card at 31 January 10:00
LatestMid ==
    (aBankAx :> <<DayNumber(2024, 1, 23), 0>>)
        @@ (aCardAx :> <<DayNumber(2024, 1, 31), 36000>>) @@ LatestNone
\* dates before every statement row
LatestEarly ==
    (aBankAx :> <<DayNumber(2023, 12, 30), 0>>)
        @@ (aCardAx :> <<DayNumber(2024, 1, 22), 0>>) @@ LatestNone

LatestMaps == {LatestNone, LatestMid, LatestEarly}

ScanIdle ==
    /\ scan_type = <<>>
    /\ latest_txn_by_account = LatestNone
    /\ statement_files = <<>>
    /\ file_idx = 0
    /\ sheet_name_calls = <<>>
    /\ sheet_data_calls = <<>>
    /\ all_parsed_txns = <<>>
    /\ gpc = "idle"

\* lines 377-383: the call with its arguments and the listed files
ScanInit ==
    /\ scan_type \in {tBank, tCc}
    /\ latest_txn_by_account \in LatestMaps
    /\ statement_files \in SeqsUpTo(StatementFiles, MaxFiles)
    /\ file_idx = 1
    /\ sheet_name_calls = <<>>
    /\ sheet_data_calls = <<>>
    /\ all_parsed_txns = <<>>
    /\ gpc = "loop"

\* the pass r of the loop body for the file at file_idx
AfterPass(r) ==
    /\ sheet_name_calls' =
           IF r.name_called THEN Append(sheet_name_calls, file_idx)
           ELSE sheet_name_calls
    /\ sheet_data_calls' =
           IF r.data_called THEN Append(sheet_data_calls, file_idx)
           ELSE sheet_data_calls
    /\ all_parsed_txns' = all_parsed_txns \o r.txns
    /\ gpc' = IF r.exits THEN "exit" ELSE "loop"
    /\ file_idx' = file_idx + 1

\* lines 385-464: one statement file
ProcessFile ==
    /\ gpc = "loop"
    /\ file_idx <= Len(statement_files)
    /\ AfterPass(PassOfFile(statement_files[file_idx], scan_type,
                            latest_txn_by_account))
    /\ UNCHANGED <<scan_type, latest_txn_by_account, statement_files>>

\* lines 466-476: the sorted list is returned; the sort raises TypeError
\* when it has to compare a missing description with a text
ReturnParsed ==
    /\ gpc = "loop"
    /\ file_idx > Len(statement_files)
    /\ IF SortRaises(all_parsed_txns)
       THEN gpc' = "raised" /\ UNCHANGED all_parsed_txns
       ELSE gpc' = "returned" /\ all_parsed_txns' = SortTxns(all_parsed_txns)
    /\ UNCHANGED <<scan_type, latest_txn_by_account, statement_files, file_idx,
                   sheet_name_calls, sheet_data_calls>>

\* ------------------------------------------------------------------------
\* The components that a specification leaves alone
\* ------------------------------------------------------------------------
ExtIdle ==
    AmountIdle /\ DateIdle /\ StoreIdle /\ OverwriteIdle /\ BackupIdle
        /\ RetryIdle /\ ScanIdle

Init == MatcherInit /\ CatIdle /\ ProcIdle /\ ExtIdle

Next ==
    \/ ReturnNoPotential /\ UNCHANGED <<cvars, pvars, evars>>
    \/ ReturnAllPotential /\ UNCHANGED <<cvars, pvars, evars>>
    \/ BuildOldIds /\ UNCHANGED <<cvars, pvars, evars>>
    \/ MatchCandidates /\ UNCHANGED <<cvars, pvars, evars>>
    \/ SortAndReturn /\ UNCHANGED <<cvars, pvars, evars>>
    \/ MergeAndRerun /\ UNCHANGED <<cvars, pvars, evars>>

Spec == Init /\ [][Next]_vars

\* find_new_txns on lists that may hold records without a key
MissingKeyInit ==
    /\ old_txns \in SeqsUpTo(MissingKeyTxns, MaxMissOld)
    /\ all_potential_txns \in SeqsUpTo(MissingKeyTxns, MaxCands)
    /\ old_txn_ids = {}
    /\ new_txns = <<>>
    /\ result = <<>>
    /\ mpc = "call"
    /\ run = 1
    /\ in_old = old_txns
    /\ in_cands = all_potential_txns
    /\ merged = 0
    /\ fatal_logs = 0
    /\ CatIdle
    /\ ProcIdle
    /\ ExtIdle

MissingKeySpec == MissingKeyInit /\ [][Next]_vars

CatSpecInit == CatInit /\ MatcherIdle /\ ProcIdle /\ ExtIdle

CatNext ==
    \/ NoMatchersExit /\ UNCHANGED <<mvars, pvars, evars>>
    \/ StartCategorize /\ UNCHANGED <<mvars, pvars, evars>>
    \/ CategorizeTxn /\ UNCHANGED <<mvars, pvars, evars>>
    \/ CatReturn /\ UNCHANGED <<mvars, pvars, evars>>

CatSpec == CatSpecInit /\ [][CatNext]_vars

\* parse and standardize one statement sheet, or read the ledger sheet
PipeInit ==
    /\ \/ /\ source = "statement"
          /\ config \in Profiles
          /\ raw_data \in StatementTables
          /\ account_name = <<"B">>
       \/ /\ source = "ledger"
          /\ config = LogConfig
          /\ raw_data \in LedgerTables
          /\ account_name = <<>>
    /\ best_header_row_index = -1
    /\ df = NoFrame
    /\ std_txns = <<>>
    /\ ppc = "start"
    /\ MatcherIdle
    /\ CatIdle
    /\ ExtIdle

PipeNext ==
    \/ ParseStatement /\ UNCHANGED <<mvars, cvars, evars>>
    \/ StandardizeDf /\ UNCHANGED <<mvars, cvars, evars>>
    \/ GetOldTransactions /\ UNCHANGED <<mvars, cvars, evars>>

PipeSpec == PipeInit /\ [][PipeNext]_vars

\* header detection on statements longer than the scanned rows
HeaderInit ==
    /\ source = "statement"
    /\ config = PHeader
    /\ raw_data \in HeaderTables
    /\ account_name = <<"B">>
    /\ best_header_row_index = -1
    /\ df = NoFrame
    /\ std_txns = <<>>
    /\ ppc = "start"
    /\ MatcherIdle
    /\ CatIdle
    /\ ExtIdle

HeaderNext == ParseStatement /\ UNCHANGED <<mvars, cvars, evars>>

HeaderSpec == HeaderInit /\ [][HeaderNext]_vars

\* _parse_amount on one argument
AmountSpecInit == AmountInit /\ MatcherIdle /\ CatIdle /\ ProcIdle /\ DateIdle /\ StoreIdle /\ OverwriteIdle
        /\ BackupIdle /\ RetryIdle /\ ScanIdle

AmountNext == ParseAmountCall /\ UNCHANGED <<mvars, cvars, pvars, dvars, svars, ovars, bvars, rvars, gvars>>

AmountSpec == AmountSpecInit /\ [][AmountNext]_vars

\* parse_mixed_datetime on one cell and one format list
DateSpecInit == DateInit /\ MatcherIdle /\ CatIdle /\ ProcIdle /\ AmountIdle /\ StoreIdle /\ OverwriteIdle
        /\ BackupIdle /\ RetryIdle /\ ScanIdle

DateNext == ParseMixedDatetime /\ UNCHANGED <<mvars, cvars, pvars, avars, svars, ovars, bvars, rvars, gvars>>

DateSpec == DateSpecInit /\ [][DateNext]_vars

\* the ledger written from canonical transactions and read back
RoundTripSpecInit ==
    RoundTripInit /\ MatcherIdle /\ CatIdle /\ AmountIdle /\ DateIdle
        /\ OverwriteIdle /\ BackupIdle /\ RetryIdle /\ ScanIdle

RoundTripNext ==
    \/ WriteLedger /\ UNCHANGED <<mvars, cvars, avars, dvars, ovars, bvars, rvars, gvars>>
    \/ GetOldTransactions /\ UNCHANGED <<mvars, cvars, evars>>

RoundTripSpec == RoundTripSpecInit /\ [][RoundTripNext]_vars

\* overwrite_transaction_log on one list and one log type
OverwriteSpecInit ==
    OverwriteInit /\ MatcherIdle /\ CatIdle /\ ProcIdle /\ AmountIdle /\ DateIdle
        /\ BackupIdle /\ RetryIdle /\ ScanIdle

OverwriteNext ==
    \/ OverwriteCall /\ UNCHANGED <<mvars, cvars, pvars, avars, dvars, bvars, rvars, gvars>>
    \/ ClearReturns /\ UNCHANGED <<mvars, cvars, pvars, avars, dvars, bvars, rvars, gvars>>
    \/ ClearRaises /\ UNCHANGED <<mvars, cvars, pvars, avars, dvars, bvars, rvars, gvars>>
    \/ WriteReturns /\ UNCHANGED <<mvars, cvars, pvars, avars, dvars, bvars, rvars, gvars>>
    \/ WriteExits /\ UNCHANGED <<mvars, cvars, pvars, avars, dvars, bvars, rvars, gvars>>

OverwriteSpec == OverwriteSpecInit /\ [][OverwriteNext]_vars

\* backup and restore calls on one database
BackupSpecInit ==
    BackupInit /\ MatcherIdle /\ CatIdle /\ ProcIdle /\ AmountIdle /\ DateIdle
        /\ StoreIdle /\ OverwriteIdle /\ RetryIdle /\ ScanIdle

BackupNext ==
    \/ Backup /\ UNCHANGED <<mvars, cvars, pvars, avars, dvars, svars, ovars, rvars, gvars>>
    \/ Restore /\ UNCHANGED <<mvars, cvars, pvars, avars, dvars, svars, ovars, rvars, gvars>>

BackupSpec == BackupSpecInit /\ [][BackupNext]_vars

\* one call of a function wrapped by retry_on_gcp_error.  The wrapped
\* function and time.sleep return or raise, so the wrapper takes its
\* next step.
RetrySpecInit ==
    RetryInit /\ MatcherIdle /\ CatIdle /\ ProcIdle /\ AmountIdle /\ DateIdle
        /\ StoreIdle /\ OverwriteIdle /\ BackupIdle /\ ScanIdle

RetryNext ==
    \/ AttemptReturns
           /\ UNCHANGED <<mvars, cvars, pvars, avars, dvars, svars, ovars, bvars, gvars>>
    \/ AttemptHttpError
           /\ UNCHANGED <<mvars, cvars, pvars, avars, dvars, svars, ovars, bvars, gvars>>
    \/ AttemptException
           /\ UNCHANGED <<mvars, cvars, pvars, avars, dvars, svars, ovars, bvars, gvars>>

RetrySpec == RetrySpecInit /\ [][RetryNext]_vars /\ WF_vars(RetryNext)

\* one call of get_new_transactions_from_statements
ScanSpecInit ==
    ScanInit /\ MatcherIdle /\ CatIdle /\ ProcIdle /\ AmountIdle /\ DateIdle
        /\ StoreIdle /\ OverwriteIdle /\ BackupIdle /\ RetryIdle

ScanNext ==
    \/ ProcessFile
           /\ UNCHANGED <<mvars, cvars, pvars, avars, dvars, svars, ovars, bvars, rvars>>
    \/ ReturnParsed
           /\ UNCHANGED <<mvars, cvars, pvars, avars, dvars, svars, ovars, bvars, rvars>>

ScanSpec == ScanSpecInit /\ [][ScanNext]_vars

\* ------------------------------------------------------------------------
\* Properties of TransactionMatcher.find_new_txns (checked under Spec)
\* ------------------------------------------------------------------------
OldIdsAtEntry == {TxnId(in_old[i]) : i \in 1..Len(in_old)}

\* the candidates whose key is the key of no old record and of no earlier
\* candidate
FirstNewIdx ==
    {i \in 1..Len(in_cands) :
        /\ TxnId(in_cands[i]) \notin OldIdsAtEntry
        /\ \A j \in 1..(i - 1) : TxnId(in_cands[j]) # TxnId(in_cands[i])}

\* C1: with a non-empty old list, the returned list holds exactly the
\* candidates whose identity key is the key of no old record and of no
\* earlier candidate: the first occurrence of every key absent from old,
\* once each, and nothing else.
C1_ExactlyFirstNew ==
    (mpc = "done" /\ in_old # <<>>) =>
        /\ Len(result) = Cardinality(FirstNewIdx)
        /\ \A i \in FirstNewIdx : in_cands[i] \in Range(result)
        /\ \A r \in Range(result) : \E i \in FirstNewIdx : r = in_cands[i]

\* a run with an old record's key, a repeated new key and three candidates
C1_Witness ==
    /\ mpc = "done"
    /\ run = 1
    /\ in_old # <<>>
    /\ Len(in_cands) = 3
    /\ TxnId(in_cands[3]) \in OldIdsAtEntry
    /\ TxnId(in_cands[1]) = TxnId(in_cands[2])
    /\ in_cands[1] # in_cands[2]
    /\ result = <<in_cands[1]>>

\* C2: with an empty old list, the result holds exactly one record for
\* every identity key that occurs among the candidates.
C2_EmptyOldDeduplicates ==
    (mpc = "done" /\ in_old = <<>>) =>
        \A i \in 1..Len(in_cands) :
            Cardinality({k \in 1..Len(result) :
                            TxnId(result[k]) = TxnId(in_cands[i])}) = 1

\* C3: once the result of a call is appended to the ledger, a second call
\* with the same candidates returns the empty list.
C3_RerunFindsNothing == (mpc = "done" /\ run = 2) => result = <<>>

\* a second call after an empty ledger took three candidates, two of them
\* with the same key
C3_Witness ==
    /\ mpc = "done"
    /\ run = 2
    /\ merged = 3
    /\ Len(in_old) = 3
    /\ Len(in_cands) = 3
    /\ \E i, j \in 1..3 : i < j /\ TxnId(in_cands[i]) = TxnId(in_cands[j])

\* the four components two transactions must agree on to be the same
SameTransaction(a, b) ==
    /\ a.date[1] = b.date[1]
    /\ a.account = b.account
    /\ Fmt2(a.amount) = Fmt2(b.amount)
    /\ a.description = b.description

C5_ResultSorted ==
    mpc = "done" =>
        \A i \in 1..(Len(result) - 1) : ~ItemLess(result[i + 1], result[i])

\* three new candidates come back in another order than they were given
C5_Witness ==
    /\ mpc = "done"
    /\ run = 1
    /\ in_old # <<>>
    /\ Len(result) = 3
    /\ result # in_cands
    /\ ItemLess(result[1], result[2])
    /\ ItemLess(result[2], result[3])

\* ------------------------------------------------------------------------
\* Properties of Categorizer.categorize (checked under CatSpec)
\* ------------------------------------------------------------------------
\* the rule's declared debit and account conditions hold of the transaction
ConditionsHold(m, t) ==
    /\ m.debit = "true" => t.amount < 0
    /\ m.debit = "false" => t.amount >= 0
    /\ m.account.present => IsSubstr(Lower(m.account.value), Lower(t.account))

\* the rule is not skipped and one of its patterns matches
RuleHits(m, t) ==
    /\ ConditionsHold(m, t)
    /\ m.description.is_list
    /\ \E j \in 1..Len(m.description.patterns) :
           PatternMatches(m.use_regex, m.description.patterns[j],
                          Lower(t.description))

HitSet(t) == {k \in 1..Len(matchers) : RuleHits(matchers[k], t)}

FirstHit(t) ==
    IF HitSet(t) = {} THEN 0
    ELSE CHOOSE k \in HitSet(t) : \A l \in HitSet(t) : k <= l

\* C6: after categorize, the category of every transaction is the category
\* of the first rule in list order that is not skipped and has a matching
\* pattern, whatever later rules match.
C6_FirstMatchWins ==
    cpc = "done" =>
        \A i \in 1..Len(txns) :
            FirstHit(in_txns[i]) # 0 =>
                txns[i].category = matchers[FirstHit(in_txns[i])].category

\* two rules with different categories both match a transaction
C6_Witness ==
    /\ cpc = "done"
    /\ \E i \in 1..Len(txns) :
           /\ Cardinality(HitSet(in_txns[i])) = 2
           /\ matchers[1].category # matchers[2].category
           /\ txns[i].category = matchers[1].category

\* C7: after categorize, a transaction that matches no rule has the
\* category "Uncategorized", whatever category it came with.
C7_DefaultWhenNoMatch ==
    cpc = "done" =>
        \A i \in 1..Len(txns) :
            HitSet(in_txns[i]) = {} => txns[i].category = "Uncategorized"

\* a transaction that came with another category and matches no rule
C7_Witness ==
    /\ cpc = "done"
    /\ \E i \in 1..Len(txns) :
           /\ in_txns[i].category = "Old"
           /\ HitSet(in_txns[i]) = {}
           /\ txns[i].category = "Uncategorized"

\* C8: a rule sets the category only of a transaction that meets its
\* declared conditions: debit=true needs amount < 0, debit=false needs
\* amount >= 0, account needs its lowercased text inside the lowercased
\* transaction account.
C8_ConditionsGuardRule ==
    \A i \in 1..Len(txns) :
        matched_by[i] # 0 => ConditionsHold(matchers[matched_by[i]], in_txns[i])

\* a zero amount met a debit-only rule whose pattern matches, and an
\* account rule in upper case matched a lower-case account
C8_Witness ==
    /\ cpc = "done"
    /\ matchers = <<RFood, RBank>>
    /\ \E i \in 1..Len(txns) :
           /\ in_txns[i].amount = 0
           /\ matched_by[i] = 2
           /\ txns[i].category = "Bank"

\* a pattern matches by regex search under use_regex and by lowercased
\* substring otherwise
SelectedPatternMatches(use_regex, p, d) ==
    IF use_regex THEN RegexValid(p) /\ RegexSearch(p, d)
    ELSE IsSubstr(Lower(p), d)

SelectedHitSet(t) ==
    {k \in 1..Len(matchers) :
        /\ ConditionsHold(matchers[k], t)
        /\ matchers[k].description.is_list
        /\ \E j \in 1..Len(matchers[k].description.patterns) :
               SelectedPatternMatches(matchers[k].use_regex,
                                      matchers[k].description.patterns[j],
                                      Lower(t.description))}

\* C9: a rule sets the category of a transaction only through a pattern
\* that matches in the interpretation use_regex selects: regex search when
\* it is set, lowercased substring when it is not.
C9_PatternInterpretation ==
    \A i \in 1..Len(txns) :
        matched_by[i] # 0 => matched_by[i] \in SelectedHitSet(in_txns[i])

\* a rule is broken: its description is not a list, or it holds an invalid
\* regex while use_regex is set
Broken(m) ==
    \/ ~m.description.is_list
    \/ /\ m.use_regex
       /\ \E j \in 1..Len(m.description.patterns) :
              ~RegexValid(m.description.patterns[j])

C11_EmptyRulesCompletes ==
    matchers = <<>> =>
        /\ cpc # "fatal"
        /\ cpc = "done" => \A i \in 1..Len(txns) : txns[i].category = "Uncategorized"

\* the candidates that lack one of date, account, amount, description
MissingKeyIdx == {i \in 1..Len(in_cands) : ~HasKeys(in_cands[i])}

\* C12: whatever the old list, empty or not, a candidate without a key does
\* not abort find_new_txns: the call never ends in an exception, and when it
\* returns, each such candidate was reported, none is in the result and every
\* well-formed candidate whose key is not in old is in the result.
C12_MissingKeySkipped ==
    /\ mpc # "raised"
    /\ (mpc = "done" /\ MissingKeyIdx # {}) =>
           /\ fatal_logs >= Cardinality(MissingKeyIdx)
           /\ \A r \in Range(result) : HasKeys(r)
           /\ \A i \in 1..Len(in_cands) :
                  (HasKeys(in_cands[i]) /\ TxnId(in_cands[i]) \notin OldIdsOfWellFormed(in_old))
                      => \E r \in Range(result) : TxnId(r) = TxnId(in_cands[i])

\* the well-formed candidates whose key is the key of no earlier well-formed
\* candidate
FirstWellFormedIdx ==
    {i \in 1..Len(in_cands) :
        /\ HasKeys(in_cands[i])
        /\ \A j \in 1..(i - 1) :
               HasKeys(in_cands[j]) => TxnId(in_cands[j]) # TxnId(in_cands[i])}

\* the result is the first occurrence of every well-formed candidate key
AllWellFormedKeysNew ==
    /\ Len(result) = Cardinality(FirstWellFormedIdx)
    /\ \A i \in FirstWellFormedIdx : in_cands[i] \in Range(result)
    /\ \A r \in Range(result) : \E i \in FirstWellFormedIdx : r = in_cands[i]

OldKeyMissing == in_old # <<>> /\ \E j \in 1..Len(in_old) : ~HasKeys(in_old[j])

\* C13 as stated: when a record of a non-empty old list lacks a key, the
\* failure is logged and every well-formed candidate is reported as new.
C13_OldKeyErrorAlwaysLogged ==
    (mpc = "done" /\ OldKeyMissing) => (fatal_logs >= 1 /\ AllWellFormedKeysNew)

\* C13: when a record of a non-empty old list lacks a key and there are
\* candidates, the failure is logged and the old set counts as empty: the
\* result is the first occurrence of every well-formed candidate key, also
\* of the keys that a well-formed old record has.
C13_OldKeyErrorEmptiesOldSet ==
    (mpc = "done" /\ OldKeyMissing /\ in_cands # <<>>) =>
        (fatal_logs >= 1 /\ AllWellFormedKeysNew)

\* the old list holds the base record and a record without amount; the base
\* record comes back as a candidate and is reported as new, its second
\* occurrence by key is dropped
C13_Witness ==
    /\ mpc = "done"
    /\ run = 1
    /\ in_old = <<MBase, MNoAmount>>
    /\ in_cands = <<MOtherDay, MBase, MSameKey>>
    /\ result = <<MBase, MOtherDay>>
    /\ fatal_logs = 1

\* C14: find_new_txns leaves both argument lists as they were passed: the
\* same records in the same order.
C14_InputsUntouched ==
    /\ old_txns = in_old
    /\ all_potential_txns = in_cands

\* C15: categorize keeps the list length and order and every field but
\* category of every transaction.
C15_OnlyCategoryChanges ==
    /\ Len(txns) = Len(in_txns)
    /\ \A i \in 1..Len(txns) :
           /\ txns[i].date = in_txns[i].date
           /\ txns[i].description = in_txns[i].description
           /\ txns[i].amount = in_txns[i].amount
           /\ txns[i].remarks = in_txns[i].remarks
           /\ txns[i].account = in_txns[i].account

\* a completed run that changed the category of a transaction with remarks
C15_Witness ==
    /\ cpc = "done"
    /\ Len(txns) = 2
    /\ \E i \in 1..2 :
           /\ in_txns[i].remarks = "r"
           /\ txns[i].category # in_txns[i].category
           /\ matched_by[i] # 0

\* ------------------------------------------------------------------------
\* Properties of the statement pipeline (checked under PipeSpec, the
\* header detection under HeaderSpec)
\* ------------------------------------------------------------------------
\* the columns of the table handed to standardization, by canonical name
StdCols == RenameColumns(df.cols, config.column_map)

\* the cell of row i in the canonical column, missing when the table has
\* no such column
InCell(i, name) ==
    IF name \in Range(StdCols) THEN df.rows[i][ColIndex(StdCols, name)] ELSE NA

\* the rows of the table whose date cell can be parsed, in table order
DatedRows ==
    {i \in 1..Len(df.rows) :
        ParseDate(InCell(i, kDate), config.date_formats) # NoDate}
DatedRowSeq == KeepIdx([i \in 1..Len(df.rows) |-> i], DatedRows)

HasDebitCredit == kDebit \in Range(StdCols) /\ kCredit \in Range(StdCols)
HasAmount == kAmount \in Range(StdCols)
SignConfigured == config.amount_sign_col # <<>>

\* the amount the priority rule gives row i: credit minus debit; else the
\* parsed amount with the sign the configured sign column gives it; else
\* the parsed amount
ClaimedAmount(i) ==
    IF HasDebitCredit
    THEN ParseAmount(InCell(i, kCredit)).val - ParseAmount(InCell(i, kDebit)).val
    ELSE IF HasAmount /\ SignConfigured
    THEN IF IsDebitSign(InCell(i, config.amount_sign_col),
                        Lower(config.debit_value))
         THEN -ParseAmount(InCell(i, kAmount)).val
         ELSE ParseAmount(InCell(i, kAmount)).val
    ELSE ParseAmount(InCell(i, kAmount)).val

\* C16: standardization takes the amount of every row from one source in
\* fixed priority: credit minus debit when both columns exist (also next
\* to an amount column), else the parsed amount signed by the configured
\* sign column, else the parsed amount as it is; a table with none of
\* these sources yields no transactions.
C16_AmountSourcePriority ==
    (source = "statement" /\ ppc \in {"done", "no_txns"} /\ DatedRows # {}) =>
        IF HasDebitCredit \/ HasAmount
        THEN /\ ppc = "done"
             /\ Len(std_txns) = Cardinality(DatedRows)
             /\ \A k \in 1..Len(std_txns) :
                    std_txns[k].amount = ClaimedAmount(DatedRowSeq[k])
        ELSE ppc = "no_txns" /\ std_txns = <<>>

\* the data rows of the statement below its header row, and those of them
\* that hold a value and a date
DataRows == SubSeq(raw_data, best_header_row_index + 2, Len(raw_data))
EmittedDataRows ==
    {i \in 1..Len(DataRows) :
        /\ \E j \in 1..Len(DataRows[i]) : DataRows[i][j] # <<>>
        /\ ParseDate(DataRows[i][1], config.date_formats) # NoDate}
EmittedDataRowSeq == KeepIdx([i \in 1..Len(DataRows) |-> i], EmittedDataRows)

\* C17: under a profile with a sign column and an empty debit_value, a
\* statement with the columns Date, Description, Amount, Type comes out
\* of parsing and standardization with the amount of every row negated
\* when the Type cell of the row is empty and as parsed when it is not.
C17_EmptySignMeansDebit ==
    (/\ source = "statement"
     /\ ppc = "done"
     /\ config = PSignedEmpty
     /\ raw_data[best_header_row_index + 1] = HSigned) =>
        /\ Len(std_txns) = Cardinality(EmittedDataRows)
        /\ \A k \in 1..Len(std_txns) :
               std_txns[k].amount =
                   IF DataRows[EmittedDataRowSeq[k]][4] = <<>>
                   THEN -ParseAmount(DataRows[EmittedDataRowSeq[k]][3]).val
                   ELSE ParseAmount(DataRows[EmittedDataRowSeq[k]][3]).val

\* at least 75% of the keywords of the pattern occur in the joined text
Covers(row, pattern) ==
    4 * Cardinality({k \in 1..Len(pattern) :
                        IsSubstr(Lower(pattern[k]), Lower(JoinCells(row)))})
        >= 3 * Len(pattern)

\* the row indices below 30 that some header pattern covers
QualifyingRows ==
    {i \in 0..(Len(raw_data) - 1) :
        /\ i < 30
        /\ \E p \in 1..Len(config.header_patterns) :
               Covers(raw_data[i + 1], config.header_patterns[p])}

\* C18: the header row is the smallest index below 30 whose row text
\* holds at least 75% of the keywords of some header pattern, and row 0
\* when there is no such row among the first 30.
C18_HeaderIsFirstQualifyingRow ==
    (source = "statement" /\ ppc \in {"parsed", "no_frame", "fatal"}) =>
        best_header_row_index =
            IF QualifyingRows = {} THEN 0 ELSE SetMin(QualifyingRows)

\* a statement whose only row with the keywords sits at index 30: row 0
\* is taken as the header
C18_Witness ==
    /\ source = "statement"
    /\ ppc \in {"parsed", "no_frame", "fatal"}
    /\ Len(raw_data) > 30
    /\ QualifyingRows = {}
    /\ Covers(raw_data[31], config.header_patterns[1])
    /\ best_header_row_index = 0

C20_AccountAlwaysPopulated ==
    ppc = "done" =>
        \A k \in 1..Len(std_txns) :
            /\ std_txns[k].account # NA
            /\ std_txns[k].account # <<>>
            /\ source = "statement" => std_txns[k].account = account_name

\* ------------------------------------------------------------------------
\* Properties of _parse_amount (checked under AmountSpec)
\* ------------------------------------------------------------------------
\* C22: _parse_amount returns a number for every argument and never ends
\* the process; an argument that is no number yields 0.
C22_ParseAmountNeverExits ==
    apc \in {"returned", "exit"} =>
        /\ apc = "returned"
        /\ ~IsFloatText(AmountText(StrOf(amount_arg))) => amount_ret = 0

\* the value of a marked magnitude: negated in brackets and before a
\* Dr suffix of any letter case, as it is otherwise
MarkedValue(c) ==
    IF c.marker = <<"(", ")">> \/ c.marker \in DrSuffixes
    THEN -c.mag[2]
    ELSE c.mag[2]

\* C23: a magnitude in brackets or followed by " Dr" in any letter case
\* yields the negated magnitude, one followed by " Cr" in any letter
\* case the magnitude; separators and currency glyphs do not matter.
C23_SignMarkersUniform ==
    (apc \in {"returned", "exit"} /\ amount_case.kind = "marked") =>
        /\ apc = "returned"
        /\ amount_ret = MarkedValue(amount_case)

\* ------------------------------------------------------------------------
\* Properties of parse_mixed_datetime (checked under DateSpec)
\* ------------------------------------------------------------------------
CleanedDate == StripChars(StrOf(date_arg), {"'", " "})

\* the positions of the formats that read the whole cleaned string
MatchingFormats ==
    {k \in 1..Len(formats_arg) : Strptime(CleanedDate, formats_arg[k]) # NoDate}

\* C24: the result is that of the first format of the list that reads
\* the whole cleaned string; the inference decides only when no format
\* does; None and "" give None; the call always returns.
C24_FirstFormatDecides ==
    dpc # "call" =>
        /\ dpc = "returned"
        /\ date_ret =
              IF date_arg = NA \/ date_arg = <<>> THEN NoDate
              ELSE IF MatchingFormats # {}
              THEN Strptime(CleanedDate, formats_arg[SetMin(MatchingFormats)])
              ELSE InferDate(CleanedDate)

\* two formats read the cell as different days and the first one decided
C24_Witness ==
    /\ dpc = "returned"
    /\ Cardinality(MatchingFormats) = 2
    /\ Strptime(CleanedDate, formats_arg[1]) # Strptime(CleanedDate, formats_arg[2])
    /\ date_ret = Strptime(CleanedDate, formats_arg[1])

\* ------------------------------------------------------------------------
\* Properties of the ledger round trip (checked under RoundTripSpec)
\* ------------------------------------------------------------------------
\* the record r read back agrees with the transaction t that was written
ReadBackAs(t, r) ==
    /\ r.date = t.date
    /\ r.amount = t.amount
    /\ r.account = t.account
    /\ r.category = t.category

\* C25: every canonical transaction written with _format_txns_for_storage
\* under the ledger header is read back by get_old_transactions with the
\* same date, amount, account and category.
C25_LedgerRoundTrip ==
    (source = "ledger" /\ ppc \in {"done", "fatal"} /\ stored_txns # <<>>) =>
        /\ ppc = "done"
        /\ Len(std_txns) = Len(stored_txns)
        /\ \A i \in 1..Len(stored_txns) :
               \E k \in 1..Len(std_txns) : ReadBackAs(stored_txns[i], std_txns[k])

\* ------------------------------------------------------------------------
\* Properties of overwrite_transaction_log (checked under OverwriteSpec)
\* ------------------------------------------------------------------------
\* C26: with a non-empty list the calls on the data source are one
\* clear and then one write of the formatted rows, both for the log type
\* of the call, and the write is issued only after the clear returned;
\* with an empty list no call is made.
C26_ClearThenWrite ==
    opc # "idle" =>
        /\ stored_txns = <<>> => ds_calls = <<>>
        /\ Len(ds_calls) <= 2
        /\ Len(ds_calls) >= 1 => ds_calls[1] = ClearCall(account_type)
        /\ Len(ds_calls) = 2 =>
               /\ ds_calls[2].method = "write_transactions_to_log"
               /\ ds_calls[2].log_type = account_type
               /\ ds_calls[2].rows # <<>>
               /\ ds_returned >= 1
        /\ (opc = "returned" /\ stored_txns # <<>>) =>
               Len(ds_calls) = 2 /\ ds_returned = 2

\* a list of two transactions was written to the cc log
C26_Witness ==
    /\ opc = "returned"
    /\ account_type = "cc"
    /\ Len(stored_txns) = 2
    /\ Len(ds_calls) = 2
    /\ Len(ds_calls[2].rows) = 2

\* ------------------------------------------------------------------------
\* Properties of SQLiteBackupManager (checked under BackupSpec)
\* ------------------------------------------------------------------------
RECURSIVE Flatten(_)
Flatten(ss) == IF ss = <<>> THEN <<>> ELSE Head(ss) \o Flatten(Tail(ss))

\* every transaction handed to backup so far, in the order of the calls
BackedUp == Flatten(backup_calls)

BackedUpIds == {GenerateTxnId(BackedUp[i]) : i \in 1..Len(BackedUp)}

\* the transaction most recently backed up under the id
LastBackedUp(id) ==
    BackedUp[SetMax({i \in 1..Len(BackedUp) : GenerateTxnId(BackedUp[i]) = id})]

\* C27: the table holds one row per ID backed up so far, earlier IDs
\* included, with the category and remarks (and the other fields) of the
\* most recent backup of the ID; restore returns exactly these rows.
C27_BackupIsUpsert ==
    bpc = "ready" =>
        /\ Len(db_rows) = Cardinality(BackedUpIds)
        /\ {db_rows[i].id : i \in 1..Len(db_rows)} = BackedUpIds
        /\ \A i \in 1..Len(db_rows) :
               /\ db_rows[i].category = LastBackedUp(db_rows[i].id).category
               /\ db_rows[i].remarks = LastBackedUp(db_rows[i].id).remarks
               /\ RestoredTxn(db_rows[i]) = LastBackedUp(db_rows[i].id)
        /\ \A k \in 1..Len(restored_txns) :
               \E i \in 1..Len(BackedUp) : restored_txns[k] = BackedUp[i]
        /\ Len(restored_txns) <= Len(db_rows)

\* the restore after three backups returns two rows, the row of the
\* first backup with the category of the third
C27_Witness ==
    /\ Len(backup_calls) = 3
    /\ backup_calls[1] = <<BFirst, BOther>>
    /\ backup_calls[3] = <<BRecat>>
    /\ Len(restored_txns) = 2
    /\ Range(restored_txns) = {BOther, BRecat}

\* ------------------------------------------------------------------------
\* Properties of retry_on_gcp_error (checked under RetrySpec)
\* ------------------------------------------------------------------------
RetryableError(a) == a.kind = "http" /\ a.status \in {429, 500, 503}

\* what holds of the attempts made so far
RetryDiscipline ==
    /\ Len(attempt_log) <= max_retries
    /\ \A i \in 1..(Len(attempt_log) - 1) :
           /\ RetryableError(attempt_log[i])
           /\ i < max_retries
    /\ \A i \in 1..Len(sleep_log) :
           /\ i <= Len(attempt_log)
           /\ RetryableError(attempt_log[i])
           /\ sleep_log[i] = initial_backoff * 2 ^ (i - 1)
    /\ rpc = "try" => Len(sleep_log) = Len(attempt_log)
    /\ rpc = "returned" =>
           /\ attempt_log # <<>>
           /\ attempt_log[Len(attempt_log)].kind = "ok"
           /\ retry_ret = attempt_log[Len(attempt_log)].value
    /\ rpc = "exit" =>
           /\ attempt_log # <<>>
           /\ attempt_log[Len(attempt_log)].kind # "ok"
           /\ retry_ret = NoValue
           /\ \/ ~RetryableError(attempt_log[Len(attempt_log)])
              \/ Len(attempt_log) = max_retries
           /\ Len(sleep_log) = Len(attempt_log) - 1
    /\ attempt_log # <<>> /\ attempt_log[Len(attempt_log)].kind = "ok"
           => rpc = "returned"
    /\ attempt_log # <<>> /\ ~RetryableError(attempt_log[Len(attempt_log)])
           /\ attempt_log[Len(attempt_log)].kind # "ok"
           => rpc = "exit"
    /\ Len(attempt_log) = max_retries /\ attempt_log[max_retries].kind # "ok"
           => rpc = "exit"

\* C28: a wrapped call ends after at most max_retries attempts; a
\* further attempt follows only an HttpError with status 429, 500 or 503
\* on a non-final attempt and a sleep of initial_backoff * 2^attempt; the
\* value of the first successful attempt is returned; any other error, or
\* a retryable error on the final attempt, ends the call with the fatal
\* exit.
C28_RetryBounded == [](RetryDiscipline) /\ <>(rpc \in {"returned", "exit"})

\* the third attempt is reached after two retryable errors and fails
C28_Witness ==
    /\ Len(attempt_log) = max_retries
    /\ sleep_log = <<5, 10>>
    /\ attempt_log[max_retries] = [kind |-> "http", status |-> 503]
    /\ rpc = "exit"

\* ------------------------------------------------------------------------
\* Properties of get_new_transactions_from_statements (checked under
\* ScanSpec)
\* ------------------------------------------------------------------------
\* the files the loop has been through
ReachedFiles == 1..(file_idx - 1)

\* the account and the end date that the name of file i gives
MatchOf(i) ==
    GetAccountAndDateFromFilename(
        statement_files[i].name,
        IF scan_type = tBank THEN bank_accounts ELSE cc_accounts, scan_type)

\* the latest ledger date of the matched account m, if any
LatestOf(m) ==
    IF m.account = <<>> THEN NoDate ELSE latest_txn_by_account[m.account]

NameFetched(i) == \E k \in 1..Len(sheet_name_calls) : sheet_name_calls[k] = i
DataFetched(i) == \E k \in 1..Len(sheet_data_calls) : sheet_data_calls[k] = i

\* both dates are known and the ledger has reached the end of the statement
DatesCover(last, end_date) ==
    last # NoDate /\ end_date # NoDate /\ last[1] >= end_date[1]

\* file i, whose name gives m, has an id, names the account type and a
\* configured account, and the account has a parsing configuration
Eligible(i, m) ==
    /\ statement_files[i].id # <<>>
    /\ IsSubstr(scan_type, Lower(statement_files[i].name))
    /\ m.account # <<>>
    /\ \E kc \in PARSING_CONFIG :
           kc[1] = scan_type \o <<"-">> \o Split(m.account, "-")[2]

\* file i is skipped exactly when the dates cover it
SkippedIffCovered(i, m) ==
    (~NameFetched(i) /\ ~DataFetched(i)) <=> DatesCover(LatestOf(m), m.end_date)

\* C29: a statement file is skipped without a fetch of its sheet name or
\* data exactly when the latest ledger date of its account and its end
\* date are both known and the former's day is on or after the latter; a
\* file with one of them unknown is always fetched.
C29_SkippedIffDatesCover ==
    \A i \in ReachedFiles : SkippedIffCovered(i, MatchOf(i))

\* the skip rule for a file that is eligible, no fetch for the others
EligibleSkippedIffCovered(i, m) ==
    IF Eligible(i, m)
    THEN SkippedIffCovered(i, m) /\ (DataFetched(i) => NameFetched(i))
    ELSE ~NameFetched(i) /\ ~DataFetched(i)

\* C29 (amended): among the files that have an id, name the account type,
\* match a configured account and have a parsing configuration, a file is
\* skipped without any fetch exactly when both dates are known and the
\* latest ledger day is on or after the statement end date; the other
\* files are never fetched.
C29_EligibleSkippedIffDatesCover ==
    \A i \in ReachedFiles : EligibleSkippedIffCovered(i, MatchOf(i))

\* a statement of 2023 is skipped for a ledger that has reached January
\* 2024, and the file without a year in its name is fetched
C29_Witness ==
    /\ statement_files = <<FOld, FNoEnd>>
    /\ latest_txn_by_account = LatestMid
    /\ scan_type = tBank
    /\ file_idx = 3
    /\ sheet_name_calls = <<2>>
    /\ sheet_data_calls = <<2>>

\* C30: every transaction collected for an account with a latest ledger
\* date is dated strictly after that date.
C30_OnlyLaterThanLatest ==
    \A k \in 1..Len(all_parsed_txns) :
        /\ all_parsed_txns[k].account \in Accounts
        /\ latest_txn_by_account[all_parsed_txns[k].account] # NoDate =>
               DateLess(latest_txn_by_account[all_parsed_txns[k].account],
                        all_parsed_txns[k].date)

\* of the two rows of the statement, the one dated at the latest ledger
\* timestamp is dropped and the later one is returned
C30_Witness ==
    /\ gpc = "returned"
    /\ statement_files = <<FNew>>
    /\ latest_txn_by_account = LatestMid
    /\ sheet_data_calls = <<1>>
    /\ Len(all_parsed_txns) = 1
    /\ all_parsed_txns[1].date = <<DayNumber(2024, 1, 24), 0>>
    /\ all_parsed_txns[1].account = aBankAx

\* the sheets with a schema-level failure
SchemaFailureTables == {TNoDate, TNoAmount, TRagged}

\* C21: a statement file with a schema-level failure (no date column, no
\* amount source, an exception while the table is built) is the only
\* file rejected: the call does not end at it, it goes on to the
\* remaining files.
C21_SchemaFailureRejectsOneFile ==
    \A i \in ReachedFiles :
        DataFetched(i) /\ statement_files[i].data \in SchemaFailureTables
            => ~(gpc = "exit" /\ i = file_idx - 1)

====
